---- MODULE Spec2Model ----
(***************************************************************************)
(* Stuck-queue analyzer of go-rmq-monitor (package analyzer) and the       *)
(* monitoring service that drives it (package monitor).                    *)
(*                                                                         *)
(* Units.  Time is counted in steps of 10 seconds, so 5*time.Minute is 30. *)
(* Rates (float64 messages/second in the source) are counted in tenths of  *)
(* a message per second, so the default min_consume_rate 0.1 is 1 and the  *)
(* "disabled" value -1 is -10.                                             *)
(***************************************************************************)
EXTENDS Integers, Sequences, FiniteSets, TLC

VARIABLES
  now,             \* the wall clock, read by time.Now() in Analyze
  defaultConfig,   \* Analyzer.defaultConfig
  queueConfigs,    \* Analyzer.queueConfigs : name -> DetectionConfig
  states,          \* Analyzer.states       : name -> QueueState
  result,          \* the AnalysisResult returned by the last Analyze call
  verdicts,        \* what isQueueStuck returned for each queue of that call
  lastTransition,  \* per queue, the last StateTransition handed to the caller
  lastAlert,       \* per queue, the last StuckQueueAlert handed to the caller
  twin,            \* a second Analyzer with the same configuration: its states
                   \* and the verdicts of its last Analyze call
  returned,        \* what a direct call of isMessageCountStagnant or of
                   \* SendAlert returned
  service,         \* the fields of monitor.Service
  ticker,          \* the time.Ticker of Service.Start and its channel
  loop,            \* the goroutine that runs Service.Start: where it stands
  checks,          \* the executions of performCheck in progress
  tick,            \* what the last finished performCheck did
  main,            \* the goroutine that runs runMonitor: where it stands, the
                   \* configuration it loaded and what it returned
  instances,       \* the processes of the program on one host: where each
                   \* stands in PIDFile.Create and what its PIDFile holds
  pidfiles         \* the PID files on disk: path -> content

\* the monitoring service and its goroutine
serviceVars == <<service, ticker, loop, checks, tick, main>>

\* the processes of the host and their PID files
hostVars == <<instances, pidfiles>>

vars == <<now, defaultConfig, queueConfigs, states, result, verdicts,
          lastTransition, lastAlert, twin, returned, serviceVars, hostVars>>

\* what lies outside the Analyzer under observation
outside == <<twin, returned, serviceVars, hostVars>>

\* no direct call was made
NotCalled == [called |-> FALSE, stagnant |-> FALSE]

----------------------------------------------------------------------------
(* Bounds of the model *)

\* a per-queue threshold_checks override ranges over 1..MaxThreshold
MaxThreshold == 2

\* messages_ready ranges over min_message_count .. min_message_count+MaxBacklog
MaxBacklog == 3

\* the exploration of Spec stops when the clock reads MaxTime
MaxTime == 7

\* the exploration of SpecThrottle stops when the clock reads MaxThrottleTime
MaxThrottleTime == 36

\* SpecDecide feeds at most MaxSamples samples
MaxSamples == 3

\* SpecScenario feeds at most MaxScenario samples
MaxScenario == 5

\* monitor.interval and the check_interval of a queue range over 1..MaxInterval
MaxInterval == 2

\* the exploration of SpecService stops when the clock reads MaxClock
MaxClock == 4

\* main starts the loop goroutine MaxStartDelay ticks of the clock after New
\* at the latest
MaxStartDelay == 1

\* a performCheck, waiting for the broker, takes MaxCheckTime ticks of the
\* clock at most
MaxCheckTime == 2

----------------------------------------------------------------------------
(* Defaults of the configuration (setDefaults) *)

DefaultThresholdChecks == 3

DefaultMinMessageCount == 10

\* 0.1 messages per second
DefaultMinConsumeRate == 1

DefaultDetection ==
  [ ThresholdChecks |-> DefaultThresholdChecks,
    MinMessageCount |-> DefaultMinMessageCount,
    MinConsumeRate  |-> DefaultMinConsumeRate ]

----------------------------------------------------------------------------
(* Values of the time package *)

\* the zero time.Time of a field that was never set
ZeroTime == -1

\* time.Duration saturates at 2^63-1 ns
MaxDuration == 922337203

\* t.Sub(u): the zero time lies so far in the past that the result saturates
Sub(t, u) == IF u = ZeroTime THEN MaxDuration ELSE t - u

\* 5*time.Minute
AlertThrottle == 30

----------------------------------------------------------------------------
(* Sequence and map helpers *)

Last(s) == s[Len(s)]

\* s[len(s)-n:]
LastN(s, n) == SubSeq(s, Len(s) - n + 1, Len(s))

\* make(map[string]...)
EmptyMap == [n \in {} |-> n]

----------------------------------------------------------------------------
(* Analyzer *)

NoResult == [StuckAlerts |-> <<>>, Transitions |-> <<>>]

NewQueueState(name) ==
  [ QueueName        |-> name,
    History          |-> <<>>,
    ConsecutiveStuck |-> 0,
    LastAlertTime    |-> ZeroTime,
    LastSlackAlert   |-> ZeroTime,
    LastKnownState   |-> "",
    StuckSince       |-> ZeroTime ]

getConfigForQueue(queueName) ==
  IF queueName \in DOMAIN queueConfigs
    THEN queueConfigs[queueName]
    ELSE defaultConfig

\* A variant of line 290 that subtracts the wrong way round
isMessageCountStagnantSwapped(state, cfg) ==
  IF Len(state.History) < 2 THEN FALSE
  ELSE
    LET recentHistory ==
          IF Len(state.History) > cfg.ThresholdChecks
            THEN LastN(state.History, cfg.ThresholdChecks)
            ELSE state.History
        firstCount == recentHistory[1].MessagesReady
        lastCount  == Last(recentHistory).MessagesReady
        checksSpanned == Len(recentHistory) - 1
        minExpectedDecrease == checksSpanned
        actualDecrease == lastCount - firstCount
    IN  IF firstCount <= 0 /\ lastCount <= 0 THEN FALSE
        ELSE IF lastCount > firstCount THEN TRUE
        ELSE IF lastCount = firstCount THEN TRUE
        ELSE actualDecrease < minExpectedDecrease

\* A variant of lines 254-258 that looks at the whole history
isMessageCountStagnantUntrimmed(state, cfg) ==
  IF Len(state.History) < 2 THEN FALSE
  ELSE
    LET recentHistory == state.History
        firstCount == recentHistory[1].MessagesReady
        lastCount  == Last(recentHistory).MessagesReady
        checksSpanned == Len(recentHistory) - 1
        minExpectedDecrease == checksSpanned
        actualDecrease == firstCount - lastCount
    IN  IF firstCount <= 0 /\ lastCount <= 0 THEN FALSE
        ELSE IF lastCount > firstCount THEN TRUE
        ELSE IF lastCount = firstCount THEN TRUE
        ELSE actualDecrease < minExpectedDecrease

\* isMessageCountStagnant, lines 248-296
isMessageCountStagnant(state, cfg) ==
  IF Len(state.History) < 2 THEN FALSE
  ELSE
    LET recentHistory ==
          IF Len(state.History) > cfg.ThresholdChecks
            THEN LastN(state.History, cfg.ThresholdChecks)
            ELSE state.History
        firstCount == recentHistory[1].MessagesReady
        lastCount  == Last(recentHistory).MessagesReady
        checksSpanned == Len(recentHistory) - 1
        minExpectedDecrease == checksSpanned
        actualDecrease == firstCount - lastCount
    IN  IF firstCount <= 0 /\ lastCount <= 0 THEN FALSE
        ELSE IF lastCount > firstCount THEN TRUE
        ELSE IF lastCount = firstCount THEN TRUE
        ELSE actualDecrease < minExpectedDecrease

Healthy == [isStuck |-> FALSE, reason |-> ""]

Stuck(reason) == [isStuck |-> TRUE, reason |-> reason]

\* A variant of line 209 that decides one sample early
EnoughHistoryEarly(state, cfg) == Len(state.History) >= cfg.ThresholdChecks - 1

\* isQueueStuck, line 209, negated: there is enough history to decide
EnoughHistory(state, cfg) == Len(state.History) >= cfg.ThresholdChecks

\* A variant of line 216 that ignores a queue only below min_message_count
FewMessagesStrict(latest, cfg) == latest.MessagesReady < cfg.MinMessageCount

\* isQueueStuck, line 216: queues with few messages are ignored
FewMessages(latest, cfg) == latest.MessagesReady <= cfg.MinMessageCount

\* A variant of line 223 that does not look at the ack rate
hasActivityConsumeOnly(latest, cfg) ==
  \/ cfg.MinConsumeRate < 0
  \/ latest.ConsumeRate >= cfg.MinConsumeRate

\* A variant of line 223 that takes a negative min_consume_rate for a
\* threshold no rate can meet
hasActivityRateOnly(latest, cfg) ==
  \/ latest.ConsumeRate >= cfg.MinConsumeRate /\ cfg.MinConsumeRate >= 0
  \/ latest.AckRate >= cfg.MinConsumeRate /\ cfg.MinConsumeRate >= 0

\* isQueueStuck, line 223
hasActivity(latest, cfg) ==
  \/ cfg.MinConsumeRate < 0
  \/ latest.ConsumeRate >= cfg.MinConsumeRate
  \/ latest.AckRate >= cfg.MinConsumeRate

\* A variant of lines 229-232 that does not look at the consumers
IdleReasonAnyConsumers(latest) ==
  "consume rate below threshold and messages not decreasing"

\* isQueueStuck, lines 229-232
IdleReason(latest) ==
  IF latest.Consumers = 0
    THEN "no active consumers and messages not being processed"
    ELSE "consume rate below threshold and messages not decreasing"

\* A variant of lines 225-236 that finds a queue stuck on a low rate alone
isQueueStuckOnLowRate(state, cfg) ==
  IF ~EnoughHistory(state, cfg) THEN Healthy
  ELSE
    LET latest == Last(state.History)
    IN  IF FewMessages(latest, cfg) THEN Healthy
        ELSE IF ~hasActivity(latest, cfg) THEN Stuck(IdleReason(latest))
        ELSE IF isMessageCountStagnant(state, cfg)
          THEN Stuck("messages not decreasing despite consumer activity")
        ELSE Healthy

\* isQueueStuck, lines 207-245
isQueueStuck(state, cfg) ==
  IF ~EnoughHistory(state, cfg) THEN Healthy
  ELSE
    LET latest == Last(state.History)
    IN  IF FewMessages(latest, cfg) THEN Healthy
        ELSE IF ~hasActivity(latest, cfg)
          THEN IF isMessageCountStagnant(state, cfg)
                 THEN Stuck(IdleReason(latest))
                 ELSE Healthy
        ELSE IF isMessageCountStagnant(state, cfg)
          THEN Stuck("messages not decreasing despite consumer activity")
        ELSE Healthy

\* A variant of lines 130-133 that keeps the oldest snapshots
TrimHistoryOldest(history, maxHistory) ==
  IF Len(history) > maxHistory THEN SubSeq(history, 1, maxHistory) ELSE history

\* Analyze, lines 130-133: keep only the recent history
TrimHistory(history, maxHistory) ==
  IF Len(history) > maxHistory THEN LastN(history, maxHistory) ELSE history

\* Analyze, lines 119-133: append the snapshot and keep the recent history
AppendSnapshot(state, queue, queueConfig, t) ==
  LET snapshot == [ Timestamp     |-> t,
                    MessagesReady |-> queue.MessagesReady,
                    ConsumeRate   |-> queue.ConsumeRate,
                    AckRate       |-> queue.AckRate,
                    Consumers     |-> queue.Consumers ]
  IN  [state EXCEPT !.History = TrimHistory(Append(state.History, snapshot),
                                            queueConfig.ThresholdChecks + 1)]

\* A variant of line 140 that forgets the last known state
CrossesToStuckAgain(state, queueConfig) ==
  state.ConsecutiveStuck >= queueConfig.ThresholdChecks

\* A variant of line 140 that crosses one evaluation late
CrossesToStuckLate(state, queueConfig) ==
  /\ state.LastKnownState # "stuck"
  /\ state.ConsecutiveStuck > queueConfig.ThresholdChecks

\* Analyze, line 140: the state changes from healthy to stuck
CrossesToStuck(state, queueConfig) ==
  /\ state.LastKnownState # "stuck"
  /\ state.ConsecutiveStuck >= queueConfig.ThresholdChecks

\* A variant of lines 156-158 without the 5 minutes between two alerts
AlertDueUnthrottled(state, queueConfig, t) ==
  state.ConsecutiveStuck >= queueConfig.ThresholdChecks

\* A variant of line 156 that alerts one stuck evaluation before the threshold
AlertDueEarly(state, queueConfig, t) ==
  /\ state.ConsecutiveStuck >= queueConfig.ThresholdChecks - 1
  /\ Sub(t, state.LastAlertTime) >= AlertThrottle

\* Analyze, lines 156-158: the threshold is crossed and no alert in the last 5 minutes
AlertDue(state, queueConfig, t) ==
  /\ state.ConsecutiveStuck >= queueConfig.ThresholdChecks
  /\ Sub(t, state.LastAlertTime) >= AlertThrottle

\* Analyze, lines 136-176: the queue was found stuck
StuckBranch(acc, state, queue, queueConfig, reason, t) ==
  LET counted == [state EXCEPT !.ConsecutiveStuck = @ + 1]
      crossing == CrossesToStuck(counted, queueConfig)
      transition == [ QueueName     |-> queue.Name,
                      FromState     |-> "healthy",
                      ToState       |-> "stuck",
                      Timestamp     |-> t,
                      StuckDuration |-> 0,
                      QueueInfo     |-> queue,
                      Reason        |-> reason ]
      marked == IF crossing
                  THEN [counted EXCEPT !.LastKnownState = "stuck", !.StuckSince = t]
                  ELSE counted
      alerting == AlertDue(marked, queueConfig, t)
      alert == [ QueueName        |-> queue.Name,
                 Timestamp        |-> t,
                 MessagesReady    |-> queue.MessagesReady,
                 Consumers        |-> queue.Consumers,
                 ConsumeRate      |-> queue.ConsumeRate,
                 AckRate          |-> queue.AckRate,
                 ConsecutiveStuck |-> marked.ConsecutiveStuck,
                 Reason           |-> reason,
                 ThresholdChecks  |-> queueConfig.ThresholdChecks,
                 MinMessageCount  |-> queueConfig.MinMessageCount,
                 MinConsumeRate   |-> queueConfig.MinConsumeRate ]
      final == IF alerting THEN [marked EXCEPT !.LastAlertTime = t] ELSE marked
  IN  [ states      |-> (queue.Name :> final) @@ acc.states,
        alerts      |-> IF alerting THEN Append(acc.alerts, alert) ELSE acc.alerts,
        transitions |-> IF crossing THEN Append(acc.transitions, transition)
                                    ELSE acc.transitions,
        verdicts    |-> Append(acc.verdicts,
                          [QueueName |-> queue.Name, isStuck |-> TRUE, reason |-> reason]) ]

\* A variant of line 180 that recovers on the second healthy evaluation only
RecoversLate(state) ==
  state.LastKnownState = "stuck" /\ state.ConsecutiveStuck = 0

\* Analyze, line 180: the state changes from stuck to healthy
Recovers(state) == state.LastKnownState = "stuck"

\* A variant of line 182 that measures from the last alert
StuckDurationSinceAlert(state, t) == Sub(t, state.LastAlertTime)

\* Analyze, line 182
StuckDurationAt(state, t) == Sub(t, state.StuckSince)

\* A variant of line 196 that keeps the counter
ResetCounterKept(state) == state

\* Analyze, line 196: reset the counter if the queue is healthy
ResetCounter(state) == [state EXCEPT !.ConsecutiveStuck = 0]

\* Analyze, lines 177-197: the queue was found healthy
HealthyBranch(acc, state, queue, t) ==
  LET recovering == Recovers(state)
      transition == [ QueueName     |-> queue.Name,
                      FromState     |-> "stuck",
                      ToState       |-> "healthy",
                      Timestamp     |-> t,
                      StuckDuration |-> StuckDurationAt(state, t),
                      QueueInfo     |-> queue,
                      Reason        |-> "" ]
      marked == IF recovering THEN [state EXCEPT !.LastKnownState = "healthy"] ELSE state
      final == ResetCounter(marked)
  IN  [ states      |-> (queue.Name :> final) @@ acc.states,
        alerts      |-> acc.alerts,
        transitions |-> IF recovering THEN Append(acc.transitions, transition)
                                      ELSE acc.transitions,
        verdicts    |-> Append(acc.verdicts,
                          [QueueName |-> queue.Name, isStuck |-> FALSE, reason |-> ""]) ]

\* Analyze, lines 105-198: one iteration of the loop over the queues
AnalyzeQueue(acc, queue, t) ==
  LET queueConfig == getConfigForQueue(queue.Name)
      state0 == IF queue.Name \in DOMAIN acc.states
                  THEN acc.states[queue.Name]
                  ELSE NewQueueState(queue.Name)
      state == AppendSnapshot(state0, queue, queueConfig, t)
      verdict == isQueueStuck(state, queueConfig)
  IN  IF verdict.isStuck
        THEN StuckBranch(acc, state, queue, queueConfig, verdict.reason, t)
        ELSE HealthyBranch(acc, state, queue, t)

\* A variant of the loop of lines 105-198 that gives up at the first queue
\* found stuck
RECURSIVE AnalyzeLoopUntilStuck(_, _, _, _)
AnalyzeLoopUntilStuck(acc, queues, i, t) ==
  IF i > Len(queues) THEN acc
  ELSE LET next == AnalyzeQueue(acc, queues[i], t)
       IN  IF Last(next.verdicts).isStuck THEN next
           ELSE AnalyzeLoopUntilStuck(next, queues, i + 1, t)

\* Analyze, lines 105-198: the loop over the queues
RECURSIVE AnalyzeLoop(_, _, _, _)
AnalyzeLoop(acc, queues, i, t) ==
  IF i > Len(queues) THEN acc
  ELSE AnalyzeLoop(AnalyzeQueue(acc, queues[i], t), queues, i + 1, t)

\* The alerts or transitions of one call, as the caller receives them one by
\* one, kept per queue
RECURSIVE Deliver(_, _, _)
Deliver(last, events, i) ==
  IF i > Len(events) THEN last
  ELSE Deliver((events[i].QueueName :> events[i]) @@ last, events, i + 1)

\* Analyze, lines 97-204: what the loop over the queues leaves behind
Analyzed(queues, t) ==
  LET start == [states |-> states, alerts |-> <<>>, transitions |-> <<>>, verdicts |-> <<>>]
  IN  AnalyzeLoop(start, queues, 1, t)

\* Analyze(queues) has returned out when the clock reads t, and the caller,
\* who holds pointers to the queue states (GetQueueState), leaves them as after
AnalyzeReturns(out, t, after) ==
  /\ now' = t
  /\ states' = after
  /\ result' = [StuckAlerts |-> out.alerts, Transitions |-> out.transitions]
  /\ verdicts' = out.verdicts
  /\ lastTransition' = Deliver(lastTransition, out.transitions, 1)
  /\ lastAlert' = Deliver(lastAlert, out.alerts, 1)
  /\ UNCHANGED <<defaultConfig, queueConfigs>>

\* Analyze(queues), called when the clock reads t
Analyze(queues, t) ==
  LET out == Analyzed(queues, t)
  IN  AnalyzeReturns(out, t, out.states)

\* Reset()
Reset ==
  /\ states' = EmptyMap
  /\ UNCHANGED <<now, defaultConfig, queueConfigs, result, verdicts,
                 lastTransition, lastAlert>>
  /\ UNCHANGED outside

----------------------------------------------------------------------------
(* Service: the monitoring loop (package monitor) *)

\* time.NewTicker was not called
NoTicker == [running |-> FALSE, period |-> 0, next |-> ZeroTime,
             pending |-> FALSE, fired |-> 0]

\* no performCheck has finished
NoTick == [outcome |-> "none", at |-> ZeroTime, byTicker |-> FALSE,
           present |-> {}, due |-> {}, sampled |-> {}, missed |-> {},
           fetched |-> <<>>, analyzed |-> <<>>, logged |-> <<>>,
           handled |-> <<>>, notified |-> <<>>]

\* a nil pointer, a pointer to v, and the value a pointer points to
Nil == <<>>

Ptr(v) == <<v>>

Deref(p) == p[1]

\* notifications.slack of a configuration that does not mention it
NoSlack ==
  [ Enabled          |-> FALSE,
    WebhookURLs      |-> <<>>,
    AlertCooldown    |-> 0,
    SendRecovery     |-> FALSE,
    RecoveryCooldown |-> 0 ]

\* no configuration was loaded
NoConfig ==
  [ Monitor       |-> [Interval |-> 0, Detection |-> DefaultDetection, Queues |-> <<>>],
    Notifications |-> [Slack |-> NoSlack] ]

\* runMonitor is not running
NoMain == [pc |-> "none", cfg |-> NoConfig, err |-> "nil"]

\* monitor.New was not called
NotBuilt ==
  [ Interval       |-> 0,
    queueIntervals |-> EmptyMap,
    lastCheckTimes |-> EmptyMap,
    startTime      |-> ZeroTime,
    running        |-> FALSE,
    stopChan       |-> "open",
    slackClient    |-> "nil",
    Slack          |-> NoSlack ]

\* no process of the program is observed
NoInstance ==
  /\ instances = <<>>
  /\ pidfiles = EmptyMap

\* The analyzer is used on its own: no Service was built
NoService ==
  /\ service = NotBuilt
  /\ ticker = NoTicker
  /\ loop = [pc |-> "none", ran |-> 0]
  /\ checks = <<>>
  /\ tick = NoTick
  /\ main = NoMain

----------------------------------------------------------------------------
(* Environment: the queues of the broker and the configuration *)

\* the queue whose samples are fed to the analyzer
Orders == "orders"

\* messages_ready of a sample
Levels == DefaultMinMessageCount .. (DefaultMinMessageCount + MaxBacklog)

\* consume_rate, ack_rate and consumers of a sample
Idle == [ConsumeRate |-> 0, AckRate |-> 0, Consumers |-> 0]

Starved == [ConsumeRate |-> 0, AckRate |-> 0, Consumers |-> 1]

Delivering == [ConsumeRate |-> 1, AckRate |-> 0, Consumers |-> 1]

Acking == [ConsumeRate |-> 0, AckRate |-> 1, Consumers |-> 1]

QueueInfos(levels, profiles) ==
  { [ Name          |-> Orders,
      MessagesReady |-> m,
      Consumers     |-> p.Consumers,
      ConsumeRate   |-> p.ConsumeRate,
      AckRate       |-> p.AckRate ] : m \in levels, p \in profiles }

\* The analyzer after New(cfg), and after SetQueueConfig for a configured queue:
\* the queue runs on the defaults, or on an override of threshold_checks that
\* also disables the rate check
Overrides ==
  [ ThresholdChecks : 1..MaxThreshold,
    MinMessageCount : {DefaultMinMessageCount},
    MinConsumeRate  : {-10} ]

Init ==
  /\ now = 0
  /\ defaultConfig = DefaultDetection
  /\ queueConfigs \in {EmptyMap} \cup { Orders :> c : c \in Overrides }
  /\ states = EmptyMap
  /\ result = NoResult
  /\ verdicts = <<>>
  /\ lastTransition = EmptyMap
  /\ lastAlert = EmptyMap
  /\ twin = [states |-> EmptyMap, verdicts |-> <<>>]
  /\ NoInstance
  /\ returned = NotCalled
  /\ NoService

\* One tick of the monitor: the queue is sampled and analyzed 10 seconds later
Next ==
  \E q \in QueueInfos(Levels, {Idle, Delivering}) :
     /\ now + 1 <= MaxTime
     /\ Analyze(<<q>>, now + 1)
     /\ UNCHANGED outside

Spec == Init /\ [][Next]_vars

\* Reset may be called between two ticks
SpecReset == Init /\ [][Next \/ Reset]_vars

\* A backlog that never shrinks and stays above min_message_count
NextGrowing ==
  \E q \in QueueInfos(Levels, {Idle, Delivering}) :
     /\ now + 1 <= MaxTime
     /\ q.MessagesReady > getConfigForQueue(Orders).MinMessageCount
     /\ Orders \in DOMAIN states =>
           q.MessagesReady >= Last(states[Orders].History).MessagesReady
     /\ Analyze(<<q>>, now + 1)
     /\ UNCHANGED outside

SpecGrowing == Init /\ [][NextGrowing]_vars

\* A backlog that shrinks by one message at least from each sample to the next
NextDraining ==
  \E q \in QueueInfos(Levels, {Idle, Delivering}) :
     /\ now + 1 <= MaxTime
     /\ Orders \in DOMAIN states =>
           q.MessagesReady <= Last(states[Orders].History).MessagesReady - 1
     /\ Analyze(<<q>>, now + 1)
     /\ UNCHANGED outside

SpecDraining == Init /\ [][NextDraining]_vars

\* Five minutes and more of ticks at the 10-second cadence, the backlog at or
\* just above min_message_count
NextThrottle ==
  \E q \in QueueInfos({DefaultMinMessageCount, DefaultMinMessageCount + 1}, {Idle}) :
     /\ now + 1 <= MaxThrottleTime
     /\ Analyze(<<q>>, now + 1)
     /\ UNCHANGED outside

SpecThrottle == Init /\ [][NextThrottle]_vars

\* The first samples of a queue, with every kind of consumer activity
NextDecide ==
  \E q \in QueueInfos(Levels, {Idle, Starved, Delivering, Acking}) :
     /\ now + 1 <= MaxSamples
     /\ Analyze(<<q>>, now + 1)
     /\ UNCHANGED outside

SpecDecide == Init /\ [][NextDecide]_vars

\* A queue configured with a rate check: threshold_checks and a positive
\* min_consume_rate are overridden
RatedOverrides ==
  [ ThresholdChecks : 1..MaxThreshold,
    MinMessageCount : {DefaultMinMessageCount},
    MinConsumeRate  : {DefaultMinConsumeRate, DefaultMinConsumeRate + 1} ]

InitRated ==
  /\ now = 0
  /\ defaultConfig = DefaultDetection
  /\ queueConfigs \in {EmptyMap} \cup { Orders :> c : c \in RatedOverrides }
  /\ states = EmptyMap
  /\ result = NoResult
  /\ verdicts = <<>>
  /\ lastTransition = EmptyMap
  /\ lastAlert = EmptyMap
  /\ twin = [states |-> EmptyMap, verdicts |-> <<>>]
  /\ NoInstance
  /\ returned = NotCalled
  /\ NoService

\* The first samples of a queue whose rates are checked
SpecRated == InitRated /\ [][NextDecide]_vars

\* messages_ready of the samples of the two documented scenarios
ScenarioLevels == {25, 40, 50}

\* The analyzer after New(cfg) with the shipped detection settings and no
\* per-queue override
InitScenario ==
  /\ now = 0
  /\ defaultConfig = DefaultDetection
  /\ queueConfigs = EmptyMap
  /\ states = EmptyMap
  /\ result = NoResult
  /\ verdicts = <<>>
  /\ lastTransition = EmptyMap
  /\ lastAlert = EmptyMap
  /\ twin = [states |-> EmptyMap, verdicts |-> <<>>]
  /\ NoInstance
  /\ returned = NotCalled
  /\ NoService

\* A fresh queue is fed one sample per tick, MaxScenario samples at most
NextScenario ==
  \E q \in QueueInfos(ScenarioLevels, {Idle, Starved, Acking}) :
     /\ now + 1 <= MaxScenario
     /\ Analyze(<<q>>, now + 1)
     /\ UNCHANGED outside

SpecScenario == InitScenario /\ [][NextScenario]_vars

\* The histories a queue state can hold under threshold_checks = T: one to T+1
\* snapshots in arrival order, messages_ready from 0 to MaxBacklog
Histories(T) ==
  UNION { [ 1..n -> { [ Timestamp     |-> 0,
                        MessagesReady |-> m,
                        ConsumeRate   |-> 0,
                        AckRate       |-> 0,
                        Consumers     |-> 0 ] : m \in 0..MaxBacklog } ]
          : n \in 1..(T + 1) }

\* A queue state with some history, under a configuration with some
\* threshold_checks
InitStagnation ==
  /\ now = 0
  /\ defaultConfig = DefaultDetection
  /\ \E T \in 1..MaxThreshold :
       /\ queueConfigs = (Orders :> [DefaultDetection EXCEPT !.ThresholdChecks = T])
       /\ \E h \in Histories(T) :
             states = (Orders :> [NewQueueState(Orders) EXCEPT !.History = h])
  /\ result = NoResult
  /\ verdicts = <<>>
  /\ lastTransition = EmptyMap
  /\ lastAlert = EmptyMap
  /\ twin = [states |-> EmptyMap, verdicts |-> <<>>]
  /\ NoInstance
  /\ returned = NotCalled
  /\ NoService

\* a.isMessageCountStagnant(state, cfg) is called on the queue state
CallStagnant ==
  /\ ~returned.called
  /\ returned' = [ called   |-> TRUE,
                   stagnant |-> isMessageCountStagnant(states[Orders],
                                                       getConfigForQueue(Orders)) ]
  /\ UNCHANGED <<now, defaultConfig, queueConfigs, states, result, verdicts,
                 lastTransition, lastAlert, twin, serviceVars, hostVars>>

SpecStagnation == InitStagnation /\ [][CallStagnant]_vars

\* messages_ready of the samples fed to two analyzers side by side
TwinLevels == DefaultMinMessageCount .. (DefaultMinMessageCount + 2)

\* Two analyzers with the same configuration are fed, tick by tick, the same
\* messages_ready with independently chosen rates and consumers
NextTwin ==
  \E q \in QueueInfos(TwinLevels, {Idle, Delivering}) :
    \E r \in QueueInfos({q.MessagesReady}, {Idle, Starved, Acking}) :
       LET start == [ states |-> twin.states, alerts |-> <<>>,
                      transitions |-> <<>>, verdicts |-> <<>> ]
           out == AnalyzeLoop(start, <<r>>, 1, now + 1)
       IN  /\ now + 1 <= MaxSamples
           /\ Analyze(<<q>>, now + 1)
           /\ twin' = [states |-> out.states, verdicts |-> out.verdicts]
           /\ UNCHANGED <<returned, serviceVars, hostVars>>

SpecTwin == Init /\ [][NextTwin]_vars

\* the largest threshold_checks of a fresh queue under observation
MaxFreshThreshold == 3

\* threshold_checks of 2 and more, with and without the rate check
FreshOverrides ==
  [ ThresholdChecks : 2..MaxFreshThreshold,
    MinMessageCount : {DefaultMinMessageCount},
    MinConsumeRate  : {-10, DefaultMinConsumeRate} ]

\* The analyzer after New(cfg) and SetQueueConfig for the queue; the twin is
\* configured alike
InitFresh ==
  /\ now = 0
  /\ defaultConfig = DefaultDetection
  /\ queueConfigs \in { Orders :> c : c \in FreshOverrides }
  /\ states = EmptyMap
  /\ result = NoResult
  /\ verdicts = <<>>
  /\ lastTransition = EmptyMap
  /\ lastAlert = EmptyMap
  /\ twin = [states |-> EmptyMap, verdicts |-> <<>>]
  /\ NoInstance
  /\ returned = NotCalled
  /\ NoService

\* messages_ready of the samples of a fresh queue: at min_message_count,
\* and above it
FreshLevels ==
  {DefaultMinMessageCount, DefaultMinMessageCount + 1, DefaultMinMessageCount + 3}

\* A fresh queue is fed one sample per tick, of any level.  The twin is fed
\* the same rates and consumers with a flat backlog: the level of its first
\* sample, which is above min_message_count
NextFresh ==
  \E q \in QueueInfos(FreshLevels, {Idle, Delivering}) :
    \E first \in FreshLevels \ {DefaultMinMessageCount} :
       LET seen == Orders \in DOMAIN twin.states
           flat == IF seen THEN Last(twin.states[Orders].History).MessagesReady
                           ELSE first
           start == [ states |-> twin.states, alerts |-> <<>>,
                      transitions |-> <<>>, verdicts |-> <<>> ]
           out == AnalyzeLoop(start, <<[q EXCEPT !.MessagesReady = flat]>>, 1, now + 1)
       IN  /\ now + 1 <= 2 * MaxFreshThreshold
           /\ seen => first = flat
           /\ Analyze(<<q>>, now + 1)
           /\ twin' = [states |-> out.states, verdicts |-> out.verdicts]
           /\ UNCHANGED <<returned, serviceVars, hostVars>>

SpecFresh == InitFresh /\ [][NextFresh]_vars

\* samples fed to two analyzers that differ in what they are told about the
\* consumers
MaxBlindTime == 4

MaxBlindThreshold == 2

\* queue overrides with and without the rate check, min_message_count at
\* its default and one above
BlindOverrides ==
  [ ThresholdChecks : 1..MaxBlindThreshold,
    MinMessageCount : {DefaultMinMessageCount, DefaultMinMessageCount + 1},
    MinConsumeRate  : {-10, DefaultMinConsumeRate} ]

\* The analyzer after New(cfg) and SetQueueConfig for the queue; the twin is
\* configured alike
InitBlind ==
  /\ now = 0
  /\ defaultConfig = DefaultDetection
  /\ queueConfigs \in { Orders :> c : c \in BlindOverrides }
  /\ states = EmptyMap
  /\ result = NoResult
  /\ verdicts = <<>>
  /\ lastTransition = EmptyMap
  /\ lastAlert = EmptyMap
  /\ twin = [states |-> EmptyMap, verdicts |-> <<>>]
  /\ NoInstance
  /\ returned = NotCalled
  /\ NoService

\* messages_ready of the samples: one and two above the default
\* min_message_count
BlindLevels == {DefaultMinMessageCount + 1, DefaultMinMessageCount + 2}

\* Both analyzers are fed, tick by tick, the same messages_ready, one with
\* no consumers or with deliveries, the other with no consumers or with
\* acknowledgements
NextBlind ==
  \E q \in QueueInfos(BlindLevels, {Idle, Delivering}) :
    \E r \in QueueInfos({q.MessagesReady}, {Idle, Acking}) :
       LET start == [ states |-> twin.states, alerts |-> <<>>,
                      transitions |-> <<>>, verdicts |-> <<>> ]
           out == AnalyzeLoop(start, <<r>>, 1, now + 1)
       IN  /\ now + 1 <= MaxBlindTime
           /\ Analyze(<<q>>, now + 1)
           /\ twin' = [states |-> out.states, verdicts |-> out.verdicts]
           /\ UNCHANGED <<returned, serviceVars, hostVars>>

SpecBlind == InitBlind /\ [][NextBlind]_vars

----------------------------------------------------------------------------
(* Service operations.  The broker lists one queue that is always there and *)
(* one that comes and goes; whether a fetch fails is the broker's choice.   *)

Payments == "payments"

QueueNames == {Orders, Payments}

\* a queue as GetQueues reports it: a backlog above min_message_count that
\* nobody consumes
BrokerQueue(name) ==
  [ Name          |-> name,
    MessagesReady |-> DefaultMinMessageCount + 1,
    Consumers     |-> 0,
    ConsumeRate   |-> 0,
    AckRate       |-> 0 ]

\* what a successful GetQueues can return
Fetches ==
  { <<BrokerQueue(Orders)>>,
    <<BrokerQueue(Payments), BrokerQueue(Orders)>> }

Names(queues) == { queues[i].Name : i \in 1..Len(queues) }

\* A variant of lines 132-137 that goes through the filter list and picks
\* the queues that were fetched, in the order of the list
FilterQueuesListed(allQueues) ==
  IF DOMAIN service.queueIntervals = {}
    THEN allQueues
    ELSE LET found == SelectSeq(main.cfg.Monitor.Queues,
                                LAMBDA c : c.Name \in Names(allQueues))
         IN  [ i \in 1..Len(found) |->
                 allQueues[CHOOSE k \in 1..Len(allQueues) :
                             allQueues[k].Name = found[i].Name] ]

\* rabbitmq.FilterQueues(allQueues, s.config.Monitor.Queues): New gives every
\* configured queue an entry of queueIntervals
FilterQueues(allQueues) ==
  IF DOMAIN service.queueIntervals = {}
    THEN allQueues
    ELSE SelectSeq(allQueues, LAMBDA q : q.Name \in DOMAIN service.queueIntervals)

\* performCheck, lines 377-380
checkIntervalOf(name) ==
  IF name \in DOMAIN service.queueIntervals
    THEN service.queueIntervals[name]
    ELSE service.Interval

\* performCheck, lines 384-386
nextCheckTimeOf(name, t) ==
  LET checkInterval == checkIntervalOf(name)
      timeSinceStart == t - service.startTime
      intervalsSinceStart == timeSinceStart \div checkInterval
  IN  service.startTime + intervalsSinceStart * checkInterval

\* A variant of lines 392-398 that waits one interval after the last check
shouldCheckSliding(name, lastCheckTimes, t) ==
  IF name \notin DOMAIN lastCheckTimes THEN TRUE
  ELSE t - lastCheckTimes[name] >= checkIntervalOf(name)

\* A variant of line 397 that also takes a sample made at the boundary itself
\* for one made before it
shouldCheckAtBoundary(name, lastCheckTimes, t) ==
  IF name \notin DOMAIN lastCheckTimes THEN TRUE
  ELSE /\ t - nextCheckTimeOf(name, t) >= 0
       /\ lastCheckTimes[name] <= nextCheckTimeOf(name, t)

\* performCheck, lines 389-398
shouldCheck(name, lastCheckTimes, t) ==
  IF name \notin DOMAIN lastCheckTimes THEN TRUE
  ELSE /\ t - nextCheckTimeOf(name, t) >= 0
       /\ lastCheckTimes[name] < nextCheckTimeOf(name, t)

\* performCheck, lines 375-425: the queues that are due, in listing order
RECURSIVE DueLoop(_, _, _, _)
DueLoop(acc, queues, i, t) ==
  IF i > Len(queues) THEN acc
  ELSE IF shouldCheck(queues[i].Name, acc.lastCheckTimes, t)
    THEN DueLoop([ queuesToCheck  |-> Append(acc.queuesToCheck, queues[i]),
                   lastCheckTimes |-> (queues[i].Name :> t) @@ acc.lastCheckTimes ],
                 queues, i + 1, t)
    ELSE DueLoop(acc, queues, i + 1, t)

\* A variant of lines 308-313 that looks at monitor.interval only
tickerIntervalGlobal == service.Interval

\* Start, lines 308-313: the shortest check interval
tickerInterval ==
  LET shorter == { n \in DOMAIN service.queueIntervals :
                     service.queueIntervals[n] < service.Interval }
  IN  IF shorter = {} THEN service.Interval
      ELSE LET shortest == CHOOSE n \in shorter : \A m \in shorter :
                              service.queueIntervals[n] <= service.queueIntervals[m]
           IN  service.queueIntervals[shortest]

\* A variant of line 324 and line 332 that runs the check in a goroutine of its own
goPerformCheck == "select"

\* Start, lines 324 and 332: the loop is inside s.performCheck() until it returns
callPerformCheck == "check"

\* A variant of lines 332-334 that gives up on an error
afterCheckReturnErr(failed) == IF failed THEN "done" ELSE "select"

\* Start, lines 324-334: an error is logged and the loop goes on
afterCheck(failed) == "select"

\* A variant of lines 374-382 in which an override of threshold_checks also
\* takes the queue's other two settings, set or not
GetDetectionConfigWhole(q, globalDefaults) ==
  IF q.ThresholdChecks # Nil
    THEN [ ThresholdChecks |-> Deref(q.ThresholdChecks),
           MinMessageCount |-> IF q.MinMessageCount # Nil THEN Deref(q.MinMessageCount)
                                                          ELSE 0,
           MinConsumeRate  |-> IF q.MinConsumeRate # Nil THEN Deref(q.MinConsumeRate)
                                                         ELSE 0 ]
    ELSE globalDefaults

\* QueueConfig.GetDetectionConfig(globalDefaults): the overrides of the queue
\* on top of a copy of the global defaults
GetDetectionConfig(q, globalDefaults) ==
  [ ThresholdChecks |-> IF q.ThresholdChecks # Nil THEN Deref(q.ThresholdChecks)
                                                   ELSE globalDefaults.ThresholdChecks,
    MinMessageCount |-> IF q.MinMessageCount # Nil THEN Deref(q.MinMessageCount)
                                                   ELSE globalDefaults.MinMessageCount,
    MinConsumeRate  |-> IF q.MinConsumeRate # Nil THEN Deref(q.MinConsumeRate)
                                                  ELSE globalDefaults.MinConsumeRate ]

\* QueueConfig.GetCheckInterval(globalDefault)
GetCheckInterval(q, globalDefault) ==
  IF q.CheckInterval # Nil THEN Deref(q.CheckInterval) ELSE globalDefault

\* config.validate: the host, the port and the log file of the configuration
\* are there (setDefaults provides them)
validate(cfg) ==
  IF cfg.Monitor.Interval <= 0 THEN "monitor.interval must be positive"
  ELSE IF cfg.Monitor.Detection.ThresholdChecks < 1
    THEN "monitor.detection.threshold_checks must be at least 1"
  ELSE "nil"

\* monitor.New, lines 234-240: SetQueueConfig and queueIntervals for every
\* entry of monitor.queues
RECURSIVE ConfigureQueues(_, _, _)
ConfigureQueues(acc, cfg, i) ==
  IF i > Len(cfg.Monitor.Queues) THEN acc
  ELSE LET queueCfg == cfg.Monitor.Queues[i]
           detectionCfg == GetDetectionConfig(queueCfg, cfg.Monitor.Detection)
           checkInterval == GetCheckInterval(queueCfg, cfg.Monitor.Interval)
       IN  ConfigureQueues(
             [ queueConfigs   |-> (queueCfg.Name :> detectionCfg) @@ acc.queueConfigs,
               queueIntervals |-> (queueCfg.Name :> checkInterval) @@ acc.queueIntervals ],
             cfg, i + 1)

\* A variant of the loop of slack.SendAlert that gives up at the first failure
RECURSIVE PostLoopUntilFailure(_, _, _, _)
PostLoopUntilFailure(acc, webhookURLs, responds, i) ==
  IF i > Len(webhookURLs) \/ acc.lastError # "nil" THEN acc
  ELSE IF webhookURLs[i] = "" THEN PostLoopUntilFailure(acc, webhookURLs, responds, i + 1)
  ELSE IF ~responds[i]
    THEN PostLoopUntilFailure(
           [acc EXCEPT !.posts = Append(@, [url |-> webhookURLs[i], ok |-> FALSE]),
                       !.lastError = "failed to send to webhook"],
           webhookURLs, responds, i + 1)
  ELSE PostLoopUntilFailure(
         [acc EXCEPT !.posts = Append(@, [url |-> webhookURLs[i], ok |-> TRUE]),
                     !.successCount = @ + 1],
         webhookURLs, responds, i + 1)

\* slack.SendAlert, lines 60-89: one POST to every webhook URL that is not
\* empty; responds[i] tells whether the i-th webhook answers 200 OK
RECURSIVE PostLoop(_, _, _, _)
PostLoop(acc, webhookURLs, responds, i) ==
  IF i > Len(webhookURLs) THEN acc
  ELSE IF webhookURLs[i] = "" THEN PostLoop(acc, webhookURLs, responds, i + 1)
  ELSE IF ~responds[i]
    THEN PostLoop(
           [acc EXCEPT !.posts = Append(@, [url |-> webhookURLs[i], ok |-> FALSE]),
                       !.lastError = "failed to send to webhook"],
           webhookURLs, responds, i + 1)
  ELSE PostLoop(
         [acc EXCEPT !.posts = Append(@, [url |-> webhookURLs[i], ok |-> TRUE]),
                     !.successCount = @ + 1],
         webhookURLs, responds, i + 1)

\* slack.Client.SendAlert(alert): the error it returns and the POSTs it made
SendAlert(config, responds) ==
  IF ~config.Enabled THEN [err |-> "nil", posts |-> <<>>]
  ELSE IF Len(config.WebhookURLs) = 0
    THEN [err |-> "no slack webhook URLs configured", posts |-> <<>>]
  ELSE LET out == PostLoop([posts |-> <<>>, successCount |-> 0, lastError |-> "nil"],
                           config.WebhookURLs, responds, 1)
       IN  [ err   |-> IF out.successCount = 0 /\ out.lastError # "nil"
                         THEN out.lastError ELSE "nil",
             posts |-> out.posts ]

\* A variant of line 528 that also holds back a notification at the very end
\* of the cooldown
InCooldownInclusive(state, cooldown, t) ==
  state.LastSlackAlert # ZeroTime /\ t - state.LastSlackAlert <= cooldown

\* handleStateTransition, line 528: the cooldown is active
InCooldown(state, cooldown, t) ==
  state.LastSlackAlert # ZeroTime /\ t - state.LastSlackAlert < cooldown

\* A variant of lines 555-560 that notes the time of the attempt
AfterSendAttempted(state, err, t) == [state EXCEPT !.LastSlackAlert = t]

\* handleStateTransition, lines 555-560: the time of the notification is kept
\* unless SendAlert returned an error
AfterSend(state, err, t) ==
  IF err # "nil" THEN state ELSE [state EXCEPT !.LastSlackAlert = t]

\* handleStateTransition(transition, now): the queue states it leaves, what it
\* did, the error it returns and the POSTs of its SendAlert call
handleStateTransition(sts, transition, t, responds) ==
  LET name == transition.QueueName
      skip(outcome, err) == [states |-> sts, outcome |-> outcome, err |-> err,
                            posts |-> <<>>]
  IN  IF name \notin DOMAIN sts THEN skip("no state", "queue state not found")
      ELSE IF transition.ToState = "healthy" /\ ~service.Slack.SendRecovery
        THEN skip("disabled", "nil")
      ELSE IF transition.ToState \notin {"stuck", "healthy"}
        THEN skip("unknown", "nil")
      ELSE LET state == sts[name]
               cooldown == IF transition.ToState = "stuck"
                             THEN service.Slack.AlertCooldown
                             ELSE service.Slack.RecoveryCooldown
           IN  IF InCooldown(state, cooldown, t) THEN skip("cooldown", "nil")
               ELSE LET sent == SendAlert(service.Slack, responds)
                    IN  [ states  |-> (name :> AfterSend(state, sent.err, t)) @@ sts,
                          outcome |-> IF sent.err # "nil" THEN "failed" ELSE "sent",
                          err     |-> sent.err,
                          posts   |-> sent.posts ]

\* A variant of line 445 that makes a notification from every evaluation
\* that found the queue stuck
dispatchedVerdicts(out) ==
  LET stuck == SelectSeq(out.verdicts, LAMBDA v : v.isStuck)
  IN  [ i \in 1..Len(stuck) |->
          [ QueueName |-> stuck[i].QueueName,
            FromState |-> "healthy",
            ToState   |-> "stuck" ] ]

\* performCheck, line 445: the events the notifications are made from
dispatched(out) == out.transitions

\* performCheck, lines 444-452: every transition goes to handleStateTransition
RECURSIVE HandleLoop(_, _, _, _, _)
HandleLoop(acc, transitions, i, t, responds) ==
  IF i > Len(transitions) THEN acc
  ELSE LET out == handleStateTransition(acc.states, transitions[i], t, responds)
       IN  HandleLoop(
             [ states  |-> out.states,
               handled |-> Append(acc.handled,
                                  [ QueueName |-> transitions[i].QueueName,
                                    FromState |-> transitions[i].FromState,
                                    ToState   |-> transitions[i].ToState,
                                    outcome   |-> out.outcome,
                                    err       |-> out.err,
                                    posts     |-> out.posts ]) ],
             transitions, i + 1, t, responds)

\* logStuckQueue(alert): the line the Logger receives
logStuckQueue(alert) ==
  [level |-> "warn", msg |-> "STUCK QUEUE DETECTED", queue |-> alert.QueueName]

\* handleStateTransition, lines 515, 529 and 562, and performCheck, line 447:
\* the line the Logger receives about a transition that was handled
TransitionLog(h) ==
  CASE h.outcome = "sent" ->
         <<[level |-> "info", msg |-> "Sent Slack notification", queue |-> h.QueueName]>>
    [] h.outcome = "cooldown" ->
         <<[level |-> "debug", msg |-> "Skipping Slack notification (cooldown active)",
            queue |-> h.QueueName]>>
    [] h.outcome = "disabled" ->
         <<[level |-> "debug", msg |-> "Skipping recovery notification (disabled)",
            queue |-> h.QueueName]>>
    [] h.outcome \in {"failed", "no state"} ->
         <<[level |-> "error", msg |-> "Failed to send Slack notification",
            queue |-> h.QueueName]>>
    [] OTHER -> <<>>

RECURSIVE TransitionLogs(_, _)
TransitionLogs(handled, i) ==
  IF i > Len(handled) THEN <<>>
  ELSE TransitionLog(handled[i]) \o TransitionLogs(handled, i + 1)

\* A variant of line 444 that handles the transitions without a Slack client
\* as well
handlesTransitionsAlways == TRUE

\* performCheck, line 444: the transitions are handled if Slack is enabled
handlesTransitions == service.slackClient # "nil"

\* performCheck, lines 439-452: what becomes of the result of Analyze
Route(out, t, responds) ==
  LET none == [states |-> out.states, handled |-> <<>>]
      notified == IF handlesTransitions
                    THEN HandleLoop(none, dispatched(out), 1, t, responds)
                    ELSE none
  IN  [ states  |-> notified.states,
        logged  |-> [ i \in 1..Len(out.alerts) |-> logStuckQueue(out.alerts[i]) ]
                      \o TransitionLogs(notified.handled, 1),
        handled |-> notified.handled ]

\* when the last notification of each kind was delivered for each queue
RECURSIVE Noted(_, _, _, _)
Noted(notified, handled, i, t) ==
  IF i > Len(handled) THEN notified
  ELSE LET h == handled[i]
           before == IF h.QueueName \in DOMAIN notified
                       THEN notified[h.QueueName]
                       ELSE [stuck |-> ZeroTime, healthy |-> ZeroTime]
           after == IF h.outcome = "sent"
                      THEN (h.QueueName :> [before EXCEPT ![h.ToState] = t]) @@ notified
                      ELSE notified
       IN  Noted(after, handled, i + 1, t)

\* the process is running
Alive == main.pc \notin {"returned", "crashed"}

\* the variables of the Analyzer and the clock
analyzerVars == <<now, defaultConfig, queueConfigs, states, result, verdicts,
                  lastTransition, lastAlert>>

\* an entry of monitor.queues that sets the check interval only
QueueEvery(name, interval) ==
  [ Name            |-> name,
    CheckInterval   |-> Ptr(interval),
    ThresholdChecks |-> Nil,
    MinMessageCount |-> Nil,
    MinConsumeRate  |-> Nil ]

\* monitor.New(cfg, log, verbosity) has returned: every configured queue has
\* its check interval and its detection settings, Slack is not enabled, and
\* main has started Start in a goroutine and waits for a signal
InitService ==
  /\ now = 0
  /\ defaultConfig = DefaultDetection
  /\ \E configured \in SUBSET QueueNames :
       /\ queueConfigs = [n \in configured |-> DefaultDetection]
       /\ \E global \in 1..MaxInterval :
            \E intervals \in [configured -> 1..MaxInterval] :
               /\ service = [ Interval       |-> global,
                              queueIntervals |-> intervals,
                              lastCheckTimes |-> EmptyMap,
                              startTime      |-> 0,
                              running        |-> FALSE,
                              stopChan       |-> "open",
                              slackClient    |-> "nil",
                              Slack          |-> NoSlack ]
               /\ LET listed == SelectSeq(<<Orders, Payments>>,
                                          LAMBDA n : n \in configured)
                  IN  main = [ pc  |-> "wait",
                               cfg |-> [ Monitor |->
                                           [ Interval  |-> global,
                                             Detection |-> DefaultDetection,
                                             Queues    |->
                                               [ i \in 1..Len(listed) |->
                                                   QueueEvery(listed[i], intervals[listed[i]]) ] ],
                                         Notifications |-> [Slack |-> NoSlack] ],
                               err |-> "nil" ]
  /\ states = EmptyMap
  /\ result = NoResult
  /\ verdicts = <<>>
  /\ lastTransition = EmptyMap
  /\ lastAlert = EmptyMap
  /\ twin = [states |-> EmptyMap, verdicts |-> <<>>]
  /\ NoInstance
  /\ returned = NotCalled
  /\ ticker = NoTicker
  /\ loop = [pc |-> "new", ran |-> 0]
  /\ checks = <<>>
  /\ tick = NoTick

\* Start, lines 296-321: up to the first check.  time.NewTicker panics when
\* the interval is not positive, and a panic of a goroutine ends the process
Start ==
  /\ Alive
  /\ loop.pc = "new"
  /\ IF service.running
       THEN /\ loop' = [loop EXCEPT !.pc = "done"]
            /\ UNCHANGED <<service, ticker, main>>
       ELSE /\ service' = [service EXCEPT !.running = TRUE]
            /\ IF tickerInterval <= 0
                 THEN /\ loop' = [loop EXCEPT !.pc = "panic"]
                      /\ main' = [main EXCEPT !.pc = "crashed"]
                      /\ UNCHANGED ticker
                 ELSE /\ ticker' = [ running |-> TRUE,
                                     period  |-> tickerInterval,
                                     next    |-> now + tickerInterval,
                                     pending |-> FALSE,
                                     fired   |-> 0 ]
                      /\ loop' = [loop EXCEPT !.pc = "first"]
                      /\ UNCHANGED main
  /\ UNCHANGED <<analyzerVars, twin, returned, hostVars, checks, tick>>

\* Start, line 324, and performCheck, lines 358-361: the first check begins
\* at once; it reads the clock and asks the broker for its queues
BeginFirstCheck ==
  /\ Alive
  /\ loop.pc = "first"
  /\ checks' = Append(checks, [now |-> now, byTicker |-> FALSE])
  /\ loop' = [loop EXCEPT !.pc = callPerformCheck]
  /\ UNCHANGED <<analyzerVars, twin, returned, hostVars, service, ticker, tick, main>>

\* Start, lines 330-332, and performCheck, lines 358-361: the loop receives
\* from ticker.C and begins a check
BeginTickCheck ==
  /\ Alive
  /\ loop.pc = "select"
  /\ ticker.pending
  /\ ticker' = [ticker EXCEPT !.pending = FALSE]
  /\ checks' = Append(checks, [now |-> now, byTicker |-> TRUE])
  /\ loop' = [pc |-> callPerformCheck, ran |-> loop.ran + 1]
  /\ UNCHANGED <<analyzerVars, twin, returned, hostVars, service, tick, main>>

\* checks without its i-th element
Without(i) == SubSeq(checks, 1, i - 1) \o SubSeq(checks, i + 1, Len(checks))

\* performCheck, lines 361-364: GetQueues fails and performCheck returns the
\* error, which Start logs
performCheckFetchFailed ==
  \E i \in 1..Len(checks) :
     /\ Alive
     /\ checks' = Without(i)
     /\ loop' = [loop EXCEPT !.pc = IF @ = "check" THEN afterCheck(TRUE) ELSE @]
     /\ tick' = [ outcome  |-> "failed",
                  at       |-> checks[i].now,
                  byTicker |-> checks[i].byTicker,
                  present  |-> {},
                  due      |-> {},
                  sampled  |-> {},
                  missed   |-> tick.missed,
                  fetched  |-> <<>>,
                  analyzed |-> <<>>,
                  logged   |-> <<>>,
                  handled  |-> <<>>,
                  notified |-> tick.notified ]
     /\ UNCHANGED <<analyzerVars, twin, returned, hostVars, service, ticker, main>>

\* the names of the queues of a list, in the order of the list
NameSeq(queues) == [ i \in 1..Len(queues) |-> queues[i].Name ]

\* A variant of lines 426-429 that goes on with an empty list
returnsEarlyNever(queuesToCheck) == FALSE

\* performCheck, lines 426-429: no queue is due and performCheck returns
returnsEarly(queuesToCheck) == queuesToCheck = <<>>

\* performCheck, lines 361-476, in the i-th check in progress: GetQueues
\* returns allQueues; the due ones are marked as checked and analyzed, the
\* alerts are logged and the transitions are handled
performCheck(i, allQueues, responds) ==
  LET t == checks[i].now
      allQueuesToMonitor == FilterQueues(allQueues)
      out == DueLoop([ queuesToCheck  |-> <<>>,
                       lastCheckTimes |-> service.lastCheckTimes ],
                     allQueuesToMonitor, 1, t)
      analysis == Analyzed(out.queuesToCheck, now)
      routed == Route(analysis, t, responds)
  IN  /\ Alive
      /\ checks' = Without(i)
      /\ loop' = [loop EXCEPT !.pc = IF @ = "check" THEN afterCheck(FALSE) ELSE @]
      /\ service' = [service EXCEPT !.lastCheckTimes = out.lastCheckTimes]
      /\ IF returnsEarly(out.queuesToCheck)
           THEN UNCHANGED analyzerVars
           ELSE AnalyzeReturns(analysis, now, routed.states)
      /\ tick' = [ outcome  |-> IF returnsEarly(out.queuesToCheck) THEN "idle"
                                                           ELSE "analyzed",
                   at       |-> t,
                   byTicker |-> checks[i].byTicker,
                   present  |-> Names(allQueuesToMonitor),
                   due      |-> { n \in Names(allQueuesToMonitor) :
                                    shouldCheck(n, service.lastCheckTimes, t) },
                   sampled  |-> Names(out.queuesToCheck),
                   missed   |-> tick.missed \cup (QueueNames \ Names(allQueues)),
                   fetched  |-> NameSeq(allQueues),
                   analyzed |-> NameSeq(out.queuesToCheck),
                   logged   |-> IF returnsEarly(out.queuesToCheck) THEN <<>> ELSE routed.logged,
                   handled  |-> IF returnsEarly(out.queuesToCheck) THEN <<>> ELSE routed.handled,
                   notified |-> IF returnsEarly(out.queuesToCheck) THEN tick.notified
                                ELSE Noted(tick.notified, routed.handled, 1, t) ]
      /\ UNCHANGED <<twin, returned, hostVars, ticker, main>>

\* what the webhooks of the Slack client can answer during one check
Responses == [1..Len(service.Slack.WebhookURLs) -> BOOLEAN]

\* a check in progress gets the queues of the broker and finishes
performCheckFetched ==
  \E i \in 1..Len(checks) :
    \E allQueues \in Fetches :
      \E responds \in Responses :
         performCheck(i, allQueues, responds)

\* Start, lines 335-337: the loop receives from stopChan and returns; the
\* deferred ticker.Stop() runs
StopLoop ==
  /\ Alive
  /\ loop.pc = "select"
  /\ service.stopChan = "closed"
  /\ loop' = [loop EXCEPT !.pc = "done"]
  /\ ticker' = [ticker EXCEPT !.running = FALSE]
  /\ UNCHANGED <<analyzerVars, twin, returned, hostVars, service, checks, tick, main>>

\* runMonitor, lines 98-101, and Stop, lines 343-354: main receives SIGINT or
\* SIGTERM and calls Stop, which does nothing unless the service is running;
\* it closes stopChan, and s.wg.Wait() returns at once, because nothing is
\* ever added to the WaitGroup
Stop ==
  /\ main.pc = "wait"
  /\ main' = [main EXCEPT !.pc = "stopping"]
  /\ service' = IF service.running
                  THEN [service EXCEPT !.running = FALSE, !.stopChan = "closed"]
                  ELSE service
  /\ UNCHANGED <<analyzerVars, twin, returned, hostVars, ticker, loop, checks, tick>>

\* runMonitor, lines 101-110: Stop returns, main logs "Monitor stopped" and
\* returns nil; the process ends, and its goroutines with it
runMonitorReturns ==
  /\ main.pc = "stopping"
  /\ main' = [main EXCEPT !.pc = "returned"]
  /\ UNCHANGED <<analyzerVars, twin, returned, hostVars, service, ticker, loop, checks, tick>>

\* Ten seconds pass.  A running ticker whose time has come sends on its
\* channel, which buffers one tick: a tick nobody has received yet is not
\* sent twice.  Only a call to the broker takes that long: a goroutine that
\* can run does so first
Elapse(limit) ==
  /\ Alive
  /\ now + 1 <= limit
  /\ loop.pc = "new" => now + 1 <= MaxStartDelay
  /\ loop.pc # "first"
  /\ loop.pc = "select" => ~ticker.pending /\ service.stopChan = "open"
  /\ \A i \in 1..Len(checks) : now + 1 - checks[i].now <= MaxCheckTime
  /\ now' = now + 1
  /\ ticker' = IF ticker.running /\ ticker.next = now + 1
                 THEN [ticker EXCEPT !.next = @ + ticker.period,
                                     !.pending = TRUE,
                                     !.fired = IF ticker.pending THEN @ ELSE @ + 1]
                 ELSE ticker
  /\ UNCHANGED <<defaultConfig, queueConfigs, states, result, verdicts,
                 lastTransition, lastAlert, twin, returned, hostVars, service, loop,
                 checks, tick, main>>

\* time passes while the service is observed
Advance == Elapse(MaxClock)

NextService ==
  \/ Start
  \/ BeginFirstCheck
  \/ BeginTickCheck
  \/ performCheckFetchFailed
  \/ performCheckFetched
  \/ StopLoop
  \/ Stop
  \/ runMonitorReturns
  \/ Advance

SpecService == InitService /\ [][NextService]_vars

----------------------------------------------------------------------------
(* Startup: runMonitor from the configuration file to the first check *)

\* an override of a queue: absent, or one of the values
Optional(values) == {Nil} \cup { Ptr(v) : v \in values }

\* monitor.queues of the file: no entry, or one for the queue of the broker
StartupQueues ==
  {<<>>} \cup
  { << [ Name            |-> Orders,
         CheckInterval   |-> ci,
         ThresholdChecks |-> tc,
         MinMessageCount |-> mc,
         MinConsumeRate  |-> mr ] >> :
      ci \in Optional(0..MaxInterval),
      tc \in Optional(0..MaxThreshold),
      mc \in Optional({DefaultMinMessageCount + 1}),
      mr \in Optional({-10}) }

\* what config.Load can unmarshal from the file: setDefaults fills in what the
\* file does not set, and the file can set any interval and any threshold
ConfigFiles ==
  [ Monitor       : [ Interval  : 0..MaxInterval,
                      Detection : [ ThresholdChecks : 0..MaxThreshold,
                                    MinMessageCount : {DefaultMinMessageCount},
                                    MinConsumeRate  : {DefaultMinConsumeRate} ],
                      Queues    : StartupQueues ],
    Notifications : [ Slack : {NoSlack} ] ]

\* runMonitor is about to load its configuration
InitStartup ==
  /\ now = 0
  /\ defaultConfig = DefaultDetection
  /\ queueConfigs = EmptyMap
  /\ states = EmptyMap
  /\ result = NoResult
  /\ verdicts = <<>>
  /\ lastTransition = EmptyMap
  /\ lastAlert = EmptyMap
  /\ twin = [states |-> EmptyMap, verdicts |-> <<>>]
  /\ NoInstance
  /\ returned = NotCalled
  /\ service = NotBuilt
  /\ ticker = NoTicker
  /\ loop = [pc |-> "none", ran |-> 0]
  /\ checks = <<>>
  /\ tick = NoTick
  /\ \E file \in ConfigFiles : main = [pc |-> "load", cfg |-> file, err |-> "nil"]

\* runMonitor, lines 48-51, and config.Load: a configuration that validate
\* rejects makes runMonitor return the error
Load ==
  /\ main.pc = "load"
  /\ main' = IF validate(main.cfg) # "nil"
               THEN [main EXCEPT !.pc = "returned", !.err = validate(main.cfg)]
               ELSE [main EXCEPT !.pc = "new"]
  /\ UNCHANGED <<analyzerVars, twin, returned, hostVars, service, ticker, loop, checks, tick>>

\* runMonitor, lines 82-95, and monitor.New: the analyzer and the service are
\* built from the configuration, and Start is run in a goroutine
New ==
  /\ main.pc = "new"
  /\ LET cfg == main.cfg
         configured == ConfigureQueues([ queueConfigs   |-> EmptyMap,
                                         queueIntervals |-> EmptyMap ], cfg, 1)
     IN  /\ defaultConfig' = cfg.Monitor.Detection
         /\ queueConfigs' = configured.queueConfigs
         /\ service' = [ Interval       |-> cfg.Monitor.Interval,
                         queueIntervals |-> configured.queueIntervals,
                         lastCheckTimes |-> EmptyMap,
                         startTime      |-> now,
                         running        |-> FALSE,
                         stopChan       |-> "open",
                         slackClient    |-> IF cfg.Notifications.Slack.Enabled
                                              THEN "client" ELSE "nil",
                         Slack          |-> cfg.Notifications.Slack ]
  /\ loop' = [pc |-> "new", ran |-> 0]
  /\ main' = [main EXCEPT !.pc = "wait"]
  /\ UNCHANGED <<now, states, result, verdicts, lastTransition, lastAlert,
                 twin, returned, hostVars, ticker, checks, tick>>

NextStartup ==
  \/ Load
  \/ New
  \/ Start
  \/ BeginFirstCheck
  \/ performCheckFetched

SpecStartup == InitStartup /\ [][NextStartup]_vars

----------------------------------------------------------------------------
(* Notifications: the service with one queue that is checked every 10       *)
(* seconds and found stuck as soon as it has two samples and a backlog.     *)

\* the longest cooldown of a Slack configuration
MaxCooldown == 2

\* the latest time of the clock
MaxNotifyClock == 4

\* detection settings under which a backlog marks a queue stuck from its
\* second sample on
Eager ==
  [ ThresholdChecks |-> 1,
    MinMessageCount |-> DefaultMinMessageCount,
    MinConsumeRate  |-> DefaultMinConsumeRate ]

\* notifications.slack of the configuration: each cooldown is off or long
SlackConfigs ==
  {NoSlack} \cup
  [ Enabled          : {TRUE},
    WebhookURLs      : {<<>>, <<"hook1">>, <<"hook1", "hook2">>},
    AlertCooldown    : {0, MaxCooldown},
    SendRecovery     : BOOLEAN,
    RecoveryCooldown : {0, MaxCooldown} ]

\* monitor.New has returned, and main has started Start in a goroutine; the
\* queue is checked every interval, the global interval being 10 seconds
InitNotifyEvery(interval) ==
  /\ now = 0
  /\ defaultConfig = DefaultDetection
  /\ queueConfigs = (Orders :> Eager)
  /\ states = EmptyMap
  /\ result = NoResult
  /\ verdicts = <<>>
  /\ lastTransition = EmptyMap
  /\ lastAlert = EmptyMap
  /\ twin = [states |-> EmptyMap, verdicts |-> <<>>]
  /\ NoInstance
  /\ returned = NotCalled
  /\ ticker = NoTicker
  /\ loop = [pc |-> "new", ran |-> 0]
  /\ checks = <<>>
  /\ tick = NoTick
  /\ \E slack \in SlackConfigs :
       /\ service = [ Interval       |-> 1,
                      queueIntervals |-> (Orders :> interval),
                      lastCheckTimes |-> EmptyMap,
                      startTime      |-> 0,
                      running        |-> FALSE,
                      stopChan       |-> "open",
                      slackClient    |-> IF slack.Enabled THEN "client" ELSE "nil",
                      Slack          |-> slack ]
       /\ main = [ pc  |-> "wait",
                   cfg |-> [ Monitor |->
                               [ Interval  |-> 1,
                                 Detection |-> DefaultDetection,
                                 Queues    |->
                                   << [ Name            |-> Orders,
                                        CheckInterval   |-> IF interval = 1 THEN Nil
                                                            ELSE Ptr(interval),
                                        ThresholdChecks |-> Ptr(1),
                                        MinMessageCount |-> Nil,
                                        MinConsumeRate  |-> Nil ] >> ],
                             Notifications |-> [Slack |-> slack] ],
                   err |-> "nil" ]

InitNotify == InitNotifyEvery(1)

\* what GetQueues returns: the queue without consumers, empty or with a
\* backlog above min_message_count
NotifyFetches ==
  { <<q>> : q \in QueueInfos({0, DefaultMinMessageCount + 1}, {Idle}) }

\* a check in progress gets the queue of the broker and finishes
performCheckNotify ==
  \E i \in 1..Len(checks) :
    \E allQueues \in NotifyFetches :
      \E responds \in Responses :
         performCheck(i, allQueues, responds)

NextNotify ==
  \/ Start
  \/ BeginFirstCheck
  \/ BeginTickCheck
  \/ performCheckNotify
  \/ Elapse(MaxNotifyClock)

SpecNotify == InitNotify /\ [][NextNotify]_vars

\* the queue is checked every 20 seconds by a ticker of 10 seconds: every
\* other tick finds nothing due
InitSparse == InitNotifyEvery(2)

SpecSparse == InitSparse /\ [][NextNotify]_vars

----------------------------------------------------------------------------
(* Two queues checked by one service: orders every 10 seconds, payments *)
(* every 20 seconds                                                     *)

\* the latest time of the clock
MaxPairClock == 4

\* detection settings under which a flat backlog marks a queue stuck at its
\* third sample
Patient == [Eager EXCEPT !.ThresholdChecks = 2]

\* monitor.New has returned, and main has started Start in a goroutine
InitPair ==
  /\ now = 0
  /\ defaultConfig = DefaultDetection
  /\ queueConfigs = (Orders :> Patient) @@ (Payments :> Eager)
  /\ states = EmptyMap
  /\ result = NoResult
  /\ verdicts = <<>>
  /\ lastTransition = EmptyMap
  /\ lastAlert = EmptyMap
  /\ twin = [states |-> EmptyMap, verdicts |-> <<>>]
  /\ NoInstance
  /\ returned = NotCalled
  /\ ticker = NoTicker
  /\ loop = [pc |-> "new", ran |-> 0]
  /\ checks = <<>>
  /\ tick = NoTick
  /\ service = [ Interval       |-> 1,
                 queueIntervals |-> (Orders :> 1) @@ (Payments :> 2),
                 lastCheckTimes |-> EmptyMap,
                 startTime      |-> 0,
                 running        |-> FALSE,
                 stopChan       |-> "open",
                 slackClient    |-> "nil",
                 Slack          |-> NoSlack ]
  /\ main = [ pc  |-> "wait",
              cfg |-> [ Monitor |->
                          [ Interval  |-> 1,
                            Detection |-> DefaultDetection,
                            Queues    |->
                              << [ Name            |-> Orders,
                                   CheckInterval   |-> Nil,
                                   ThresholdChecks |-> Ptr(2),
                                   MinMessageCount |-> Nil,
                                   MinConsumeRate  |-> Nil ],
                                 [ Name            |-> Payments,
                                   CheckInterval   |-> Ptr(2),
                                   ThresholdChecks |-> Ptr(1),
                                   MinMessageCount |-> Nil,
                                   MinConsumeRate  |-> Nil ] >> ],
                        Notifications |-> [Slack |-> NoSlack] ],
              err |-> "nil" ]

\* a queue of the broker without consumers
IdleQueue(name, messagesReady) ==
  [ Name          |-> name,
    MessagesReady |-> messagesReady,
    Consumers     |-> 0,
    ConsumeRate   |-> 0,
    AckRate       |-> 0 ]

\* what GetQueues returns: both queues, in either order, each empty or with
\* a backlog above min_message_count
PairFetches ==
  UNION { { <<IdleQueue(Orders, o), IdleQueue(Payments, p)>>,
            <<IdleQueue(Payments, p), IdleQueue(Orders, o)>> } :
          o \in {0, DefaultMinMessageCount + 1},
          p \in {0, DefaultMinMessageCount + 1} }

\* a check in progress gets the queues of the broker and finishes
performCheckPair ==
  \E i \in 1..Len(checks) :
    \E allQueues \in PairFetches :
      \E responds \in Responses :
         performCheck(i, allQueues, responds)

NextPair ==
  \/ Start
  \/ BeginFirstCheck
  \/ BeginTickCheck
  \/ performCheckPair
  \/ Elapse(MaxPairClock)

SpecPair == InitPair /\ [][NextPair]_vars

----------------------------------------------------------------------------
(* The same service from Start to the end of the process, under fair *)
(* scheduling                                                        *)

NextStopping ==
  \/ Start
  \/ BeginFirstCheck
  \/ BeginTickCheck
  \/ performCheckFetchFailed
  \/ performCheckFetched
  \/ StopLoop
  \/ Stop
  \/ runMonitorReturns
  \/ Elapse(MaxPairClock)

\* A goroutine that can run does run, and a call to the broker returns.  The
\* select of Start chooses at random among the channels that are ready, so
\* the stop channel, ready whenever the loop comes back to the select, is
\* chosen in the end.  Nothing makes the signal arrive, and nothing keeps the
\* scheduler from running main first
Fairness ==
  /\ WF_vars(Start)
  /\ WF_vars(BeginFirstCheck)
  /\ WF_vars(performCheckFetchFailed \/ performCheckFetched)
  /\ SF_vars(StopLoop)

SpecStopping == InitPair /\ [][NextStopping]_vars /\ Fairness

----------------------------------------------------------------------------
(* Start and Stop called on one Service by any caller, any number of times. *)
(* A call of Start begins once the loop of the call before it has returned, *)
(* or finds the Service running; returned holds the outcome of the last     *)
(* call that returns at once.                                               *)

MaxCallClock == 2

\* what a call of Start or Stop gave back, or the panic it raised
Outcome(op, err) == [called |-> TRUE, op |-> op, err |-> err]

\* go s.Start() once more: the loop of the call before has returned
StartAgain ==
  /\ Alive
  /\ loop.pc = "done"
  /\ loop' = [pc |-> "new", ran |-> 0]
  /\ UNCHANGED <<analyzerVars, twin, returned, hostVars, service, ticker, checks,
                 tick, main>>

\* Start, lines 297-301, called while the loop of an earlier call runs
StartWhileRunning ==
  /\ Alive
  /\ loop.pc \notin {"new", "done"}
  /\ service.running
  /\ returned' = Outcome("Start", "monitor is already running")
  /\ UNCHANGED <<analyzerVars, twin, hostVars, serviceVars>>

\* Stop, lines 343-354, by a caller that goes on afterwards: closing the
\* closed channel panics, after running was set to false
StopCall ==
  /\ Alive
  /\ IF ~service.running
       THEN /\ returned' = Outcome("Stop", "nil")
            /\ UNCHANGED <<service, main>>
       ELSE IF service.stopChan = "closed"
         THEN /\ service' = [service EXCEPT !.running = FALSE]
              /\ returned' = Outcome("Stop", "panic: close of closed channel")
              /\ main' = [main EXCEPT !.pc = "crashed"]
         ELSE /\ service' = [service EXCEPT !.running = FALSE, !.stopChan = "closed"]
              /\ returned' = Outcome("Stop", "nil")
              /\ UNCHANGED main
  /\ UNCHANGED <<analyzerVars, twin, hostVars, ticker, loop, checks, tick>>

NextCalls ==
  \/ Start
  \/ StartAgain
  \/ StartWhileRunning
  \/ BeginFirstCheck
  \/ BeginTickCheck
  \/ performCheckFetchFailed
  \/ performCheckNotify
  \/ StopLoop
  \/ StopCall
  \/ Elapse(MaxCallClock)

SpecCalls == InitNotify /\ [][NextCalls]_vars

----------------------------------------------------------------------------
(* SendAlert called on a Slack client of its own, as cmd/test-slack.go does *)

\* the most webhook URLs of a configuration
MaxWebhooks == 3

\* webhook_urls of the configuration: an entry can be the empty string
WebhookLists ==
  UNION { [1..n -> {"", "hook1", "hook2"}] : n \in 0..MaxWebhooks }

\* slack.New(config) has returned
InitSendAlert ==
  /\ now = 0
  /\ defaultConfig = DefaultDetection
  /\ queueConfigs = EmptyMap
  /\ states = EmptyMap
  /\ result = NoResult
  /\ verdicts = <<>>
  /\ lastTransition = EmptyMap
  /\ lastAlert = EmptyMap
  /\ twin = [states |-> EmptyMap, verdicts |-> <<>>]
  /\ NoInstance
  /\ returned = [called |-> FALSE, responds |-> <<>>, err |-> "nil", posts |-> <<>>]
  /\ \E enabled \in BOOLEAN :
       \E webhookURLs \in WebhookLists :
          service = [NotBuilt EXCEPT !.slackClient = "client",
                                     !.Slack = [NoSlack EXCEPT !.Enabled = enabled,
                                                               !.WebhookURLs = webhookURLs]]
  /\ ticker = NoTicker
  /\ loop = [pc |-> "none", ran |-> 0]
  /\ checks = <<>>
  /\ tick = NoTick
  /\ main = NoMain

\* client.SendAlert(alert) is called and returns
CallSendAlert ==
  /\ \E responds \in Responses :
       LET out == SendAlert(service.Slack, responds)
       IN  returned' = [ called   |-> TRUE,
                         responds |-> responds,
                         err      |-> out.err,
                         posts    |-> out.posts ]
  /\ UNCHANGED <<analyzerVars, twin, serviceVars, hostVars>>

SpecSendAlert == InitSendAlert /\ [][CallSendAlert]_vars

----------------------------------------------------------------------------
(* The PID file (package pidfile) of the processes started on one host *)

\* the most processes of the program started on the host
MaxInstances == 2

\* the process identifiers of those processes
Pids == 1..MaxInstances

\* GetDefaultPath for a relative config path: /var/run, or /tmp
VarRunPath == "/var/run/go-rmq-monitor.pid"

TmpPath == "/tmp/go-rmq-monitor.pid"

PidPaths == {VarRunPath, TmpPath}

\* strings.HasPrefix(p.path, "/var/run/")
HasVarRunPrefix(path) == path = VarRunPath

\* "/tmp/" + filepath.Base(p.path)
TmpFallback(path) == TmpPath

\* fmt.Sprintf("%d\n", pid): the text of a number
PidText(pid) == [number |-> TRUE, value |-> pid]

\* a text that is no number: the empty file os.WriteFile leaves between
\* opening (O_TRUNC) and writing, or anything else
NoText == [number |-> FALSE, value |-> 0]

\* strconv.Atoi(strings.TrimSpace(string(data)))
Atoi(data) == [err |-> ~data.number, n |-> data.value]

\* the process exists: it was started and has not ended
Exists(pid) ==
  /\ pid \in DOMAIN instances
  /\ instances[pid].pc \notin {"idle", "exited"}

\* isProcessRunning: signal 0 can be sent to the process
isProcessRunning(pid) == Exists(pid)

\* a process that has not been started
NotStarted == [pc |-> "idle", path |-> "", data |-> NoText, err |-> "nil"]

\* the processes are not started; a PID file may be left over from an
\* earlier run with a text that is no number
InitPidFile ==
  /\ now = 0
  /\ defaultConfig = DefaultDetection
  /\ queueConfigs = EmptyMap
  /\ states = EmptyMap
  /\ result = NoResult
  /\ verdicts = <<>>
  /\ lastTransition = EmptyMap
  /\ lastAlert = EmptyMap
  /\ twin = [states |-> EmptyMap, verdicts |-> <<>>]
  /\ returned = NotCalled
  /\ NoService
  /\ instances = [p \in Pids |-> NotStarted]
  /\ pidfiles \in [PidPaths -> {Nil, Ptr(NoText)}]

\* a step of process p that leaves it at pc with error err
Goes(p, pc, err) ==
  instances' = [instances EXCEPT ![p] = [@ EXCEPT !.pc = pc, !.err = err]]

\* Create, lines 50-57 and 61-68: the directory or the file cannot be written
CreateFallsBack(p) ==
  IF HasVarRunPrefix(instances[p].path)
    THEN instances' = [instances EXCEPT
                         ![p] = [@ EXCEPT !.pc = "stat",
                                          !.path = TmpFallback(instances[p].path)]]
    ELSE Goes(p, "failed", "failed to write PID file")

\* what a step of a process leaves alone
beyondHost == <<analyzerVars, twin, returned, serviceVars>>

\* runMonitor reaches lines 54-56: pidfile.New(GetDefaultPath(configPath))
NewPidFile(p) ==
  /\ instances[p].pc = "idle"
  /\ UNCHANGED beyondHost
  /\ \E path \in PidPaths :
       instances' = [instances EXCEPT ![p] = [@ EXCEPT !.pc = "stat", !.path = path]]
  /\ UNCHANGED pidfiles

\* Create, line 26: os.Stat(p.path)
CreateStat(p) ==
  /\ instances[p].pc = "stat"
  /\ UNCHANGED beyondHost
  /\ Goes(p, IF pidfiles[instances[p].path] # Nil THEN "read" ELSE "mkdir", "nil")
  /\ UNCHANGED pidfiles

\* Create, lines 28-37: os.ReadFile(p.path) and strconv.Atoi
CreateRead(p) ==
  /\ instances[p].pc = "read"
  /\ UNCHANGED beyondHost
  /\ LET file == pidfiles[instances[p].path]
     IN  IF file = Nil
           THEN Goes(p, "failed", "failed to read existing PID file")
           ELSE instances' = [instances EXCEPT
                                ![p] = [@ EXCEPT !.data = Deref(file),
                                                 !.pc = IF Atoi(Deref(file)).err
                                                          THEN "remove" ELSE "signal"]]
  /\ UNCHANGED pidfiles

\* Create, lines 40-42: isProcessRunning(pid)
CreateSignal(p) ==
  /\ instances[p].pc = "signal"
  /\ UNCHANGED beyondHost
  /\ IF isProcessRunning(Atoi(instances[p].data).n)
       THEN Goes(p, "failed", "another instance is already running")
       ELSE Goes(p, "remove", "nil")
  /\ UNCHANGED pidfiles

\* Create, lines 37 and 44: os.Remove(p.path)
CreateRemove(p) ==
  /\ instances[p].pc = "remove"
  /\ UNCHANGED beyondHost
  /\ pidfiles' = [pidfiles EXCEPT ![instances[p].path] = Nil]
  /\ Goes(p, "mkdir", "nil")

\* Create, lines 49-57: os.MkdirAll(dir, 0755)
CreateMkdirAll(p) ==
  /\ instances[p].pc = "mkdir"
  /\ UNCHANGED beyondHost
  /\ \E ok \in BOOLEAN :
       IF ok THEN Goes(p, "open", "nil") ELSE CreateFallsBack(p)
  /\ UNCHANGED pidfiles

\* Create, line 61: os.WriteFile opens the file with O_CREATE|O_TRUNC
CreateOpen(p) ==
  /\ instances[p].pc = "open"
  /\ UNCHANGED beyondHost
  /\ \E ok \in BOOLEAN :
       IF ok
         THEN /\ pidfiles' = [pidfiles EXCEPT ![instances[p].path] = Ptr(NoText)]
              /\ Goes(p, "write", "nil")
         ELSE /\ CreateFallsBack(p)
              /\ UNCHANGED pidfiles

\* Create, lines 60-70: os.WriteFile writes the PID; Create returns nil
CreateWrite(p) ==
  /\ instances[p].pc = "write"
  /\ UNCHANGED beyondHost
  /\ pidfiles' = [pidfiles EXCEPT ![instances[p].path] = Ptr(PidText(p))]
  /\ Goes(p, "running", "nil")

\* runMonitor returns: with the error of Create (line 57), or after the
\* monitor has run, through the deferred pid.Remove() of line 59
Exit(p) ==
  /\ instances[p].pc \in {"failed", "running"}
  /\ UNCHANGED beyondHost
  /\ pidfiles' = IF instances[p].pc = "running"
                   THEN [pidfiles EXCEPT ![instances[p].path] = Nil]
                   ELSE pidfiles
  /\ Goes(p, "exited", instances[p].err)

\* the process is killed: nothing deferred runs
Kill(p) ==
  /\ Exists(p)
  /\ UNCHANGED beyondHost
  /\ Goes(p, "exited", instances[p].err)
  /\ UNCHANGED pidfiles

NextPidFile ==
  \E p \in Pids :
     \/ NewPidFile(p)
     \/ CreateStat(p)
     \/ CreateRead(p)
     \/ CreateSignal(p)
     \/ CreateRemove(p)
     \/ CreateMkdirAll(p)
     \/ CreateOpen(p)
     \/ CreateWrite(p)
     \/ Exit(p)
     \/ Kill(p)

SpecPidFile == InitPidFile /\ [][NextPidFile]_vars

----------------------------------------------------------------------------
(* Vocabulary of the properties *)

\* current_health of a queue state: a queue is Healthy until it is marked stuck
Health(state) == IF state.LastKnownState = "stuck" THEN "stuck" ELSE "healthy"

\* the state of queue q before the call: a queue never seen has a fresh state
Before(q) == IF q \in DOMAIN states THEN states[q] ELSE NewQueueState(q)

\* the events (alerts or transitions) of one call that are about queue q
About(events, q) == SelectSeq(events, LAMBDA e : e.QueueName = q)

ToStuck(events) == SelectSeq(events, LAMBDA e : e.FromState = "healthy" /\ e.ToState = "stuck")

ToHealthy(events) == SelectSeq(events, LAMBDA e : e.FromState = "stuck" /\ e.ToState = "healthy")

Max(a, b) == IF a >= b THEN a ELSE b

Min(a, b) == IF a <= b THEN a ELSE b

\* Evaluation(P): in every Analyze call, P(q, verdict, transitions, alerts) holds
\* of every queue q the call evaluates, where verdict is what isQueueStuck
\* returned for q and transitions and alerts are the events of the call about q
Evaluation(P(_, _, _, _)) ==
  now' # now =>
    \A i \in 1..Len(verdicts') :
      P(verdicts'[i].QueueName, verdicts'[i],
        About(result'.Transitions, verdicts'[i].QueueName),
        About(result'.StuckAlerts, verdicts'[i].QueueName))

----------------------------------------------------------------------------
(* C1: a Transition is emitted exactly once per health-state crossing and   *)
(* never while the state is unchanged: one evaluation emits at most one     *)
(* transition for the queue, it emits one exactly when current_health       *)
(* changes, and the transitions of a queue alternate Healthy->Stuck,        *)
(* Stuck->Healthy, ..., starting with Healthy->Stuck.                       *)

C1_Step(q, verdict, transitions, alerts) ==
  /\ Len(transitions) <= 1
  /\ Len(transitions) = 1 <=> Health(states'[q]) # Health(Before(q))
  /\ \A k \in 1..Len(transitions) :
       /\ transitions[k].FromState =
            (IF q \in DOMAIN lastTransition THEN lastTransition[q].ToState ELSE "healthy")
       /\ transitions[k].ToState = (IF transitions[k].FromState = "healthy"
                                      THEN "stuck" ELSE "healthy")
       /\ transitions[k].ToState = Health(states'[q])

C1_TransitionPerCrossing == [][Evaluation(C1_Step)]_vars

\* a second stuck episode begins: Healthy->Stuck is emitted for a queue that
\* was alerted on in an earlier episode
C1_Witness ==
  \E q \in DOMAIN states :
     /\ Len(ToStuck(About(result.Transitions, q))) = 1
     /\ states[q].LastAlertTime \notin {ZeroTime, now}

----------------------------------------------------------------------------
(* C2: on a backlog that never decreases and stays above min_message_count  *)
(* (SpecGrowing), every evaluation is stuck once the history holds          *)
(* threshold_checks samples (and two at least), the Healthy->Stuck          *)
(* Transition is emitted in the evaluation in which consecutive_stuck       *)
(* reaches threshold_checks and in no other, and the streak never ends.     *)

C2_Step(q, verdict, transitions, alerts) ==
  LET T == getConfigForQueue(q).ThresholdChecks
  IN  /\ verdict.isStuck <=> Len(states'[q].History) >= Max(T, 2)
      /\ states'[q].ConsecutiveStuck =
           Before(q).ConsecutiveStuck + (IF verdict.isStuck THEN 1 ELSE 0)
      /\ Len(ToStuck(transitions)) = (IF states'[q].ConsecutiveStuck = T THEN 1 ELSE 0)
      /\ Len(ToHealthy(transitions)) = 0

C2_StuckOnceOnGrowingBacklog == [][Evaluation(C2_Step)]_vars

\* a stuck evaluation after the one that crossed the threshold, without a transition
C2_Witness ==
  \E q \in DOMAIN states :
     /\ states[q].ConsecutiveStuck > getConfigForQueue(q).ThresholdChecks
     /\ states[q].LastKnownState = "stuck"
     /\ states[q].StuckSince < now
     /\ result.Transitions = <<>>

----------------------------------------------------------------------------
(* C3: alerts are throttled to one per 5 minutes per queue: an Alert is     *)
(* emitted at least 5 minutes after the previous Alert of the same queue,   *)
(* at most one per evaluation, and the first evaluation that qualifies      *)
(* (stuck, consecutive_stuck >= threshold_checks) while last_alert_time is  *)
(* unset emits one.  Checked at the 10-second cadence (SpecThrottle).       *)

C3_Step(q, verdict, transitions, alerts) ==
  LET T == getConfigForQueue(q).ThresholdChecks
      qualifies == verdict.isStuck /\ states'[q].ConsecutiveStuck >= T
  IN  /\ Len(alerts) <= 1
      /\ \A k \in 1..Len(alerts) :
           /\ alerts[k].Timestamp = now'
           /\ q \in DOMAIN lastAlert =>
                alerts[k].Timestamp - lastAlert[q].Timestamp >= AlertThrottle
      /\ (qualifies /\ Before(q).LastAlertTime = ZeroTime) => Len(alerts) = 1

C3_AlertThrottle == [][Evaluation(C3_Step)]_vars

\* the second alert of one uninterrupted stuck episode
C3_Witness ==
  \E q \in DOMAIN states :
     /\ Len(About(result.StuckAlerts, q)) = 1
     /\ states[q].StuckSince # ZeroTime
     /\ now - states[q].StuckSince = AlertThrottle
     /\ states[q].ConsecutiveStuck >= AlertThrottle

----------------------------------------------------------------------------
(* C4: after a healthy evaluation consecutive_stuck is 0, whatever the      *)
(* streak before it; after a stuck evaluation it is one more than before.   *)

C4_Step(q, verdict, transitions, alerts) ==
  states'[q].ConsecutiveStuck =
    (IF verdict.isStuck THEN Before(q).ConsecutiveStuck + 1 ELSE 0)

C4_ConsecutiveStuck == [][Evaluation(C4_Step)]_vars

\* a healthy evaluation that ends a streak long enough to have marked the queue stuck
C4_Witness ==
  \E q \in DOMAIN states :
     /\ Len(ToHealthy(About(result.Transitions, q))) = 1
     /\ states[q].ConsecutiveStuck = 0
     /\ now - states[q].StuckSince >= 2

----------------------------------------------------------------------------
(* C5: the history of a queue holds at most threshold_checks+1 snapshots,   *)
(* in arrival order; an evaluation appends the new snapshot, and when the   *)
(* bound is exceeded it is the oldest snapshots that are dropped.           *)

C5_Step(q, verdict, transitions, alerts) ==
  LET T == getConfigForQueue(q).ThresholdChecks
      old == Before(q).History
      new == states'[q].History
      kept == Len(new) - 1
  IN  /\ Len(new) = Min(Len(old) + 1, T + 1)
      /\ Last(new).Timestamp = now'
      /\ \A k \in 1..kept : new[k] = old[Len(old) - kept + k]
      /\ \A k \in 1..kept : new[k].Timestamp < new[k + 1].Timestamp

C5_BoundedHistory == [][Evaluation(C5_Step)]_vars

\* a full history whose oldest snapshots have been dropped
C5_Witness ==
  \E q \in DOMAIN states :
     /\ Len(states[q].History) = getConfigForQueue(q).ThresholdChecks + 1
     /\ states[q].History[1].Timestamp >= 3

----------------------------------------------------------------------------
(* C6: when current_health is Stuck, the first healthy evaluation emits a   *)
(* Stuck->Healthy Transition and sets current_health to Healthy; a healthy  *)
(* evaluation while current_health is not Stuck emits no transition.        *)

C6_Step(q, verdict, transitions, alerts) ==
  ~verdict.isStuck =>
     IF Health(Before(q)) = "stuck"
       THEN /\ Len(transitions) = 1
            /\ Len(ToHealthy(transitions)) = 1
            /\ states'[q].LastKnownState = "healthy"
       ELSE /\ Len(transitions) = 0
            /\ states'[q].LastKnownState = Before(q).LastKnownState

C6_RecoveryWithoutHysteresis == [][Evaluation(C6_Step)]_vars

\* a stuck queue has just recovered
C6_Witness ==
  \E q \in DOMAIN states :
     /\ Len(ToHealthy(About(result.Transitions, q))) = 1
     /\ states[q].LastKnownState = "healthy"
     /\ Last(verdicts).isStuck = FALSE

----------------------------------------------------------------------------
(* C7: the stuck_duration of a Stuck->Healthy Transition is its timestamp   *)
(* minus the timestamp of the last Healthy->Stuck Transition of the queue,  *)
(* and a stuck evaluation of a queue that is already Stuck leaves           *)
(* stuck_since alone.                                                       *)

C7_Step(q, verdict, transitions, alerts) ==
  /\ \A k \in 1..Len(transitions) :
       transitions[k].ToState = "healthy" =>
          /\ q \in DOMAIN lastTransition
          /\ lastTransition[q].ToState = "stuck"
          /\ lastTransition[q].Timestamp = Before(q).StuckSince
          /\ transitions[k].StuckDuration =
               transitions[k].Timestamp - lastTransition[q].Timestamp
  /\ (verdict.isStuck /\ Health(Before(q)) = "stuck") =>
        states'[q].StuckSince = Before(q).StuckSince

C7_StuckDuration == [][Evaluation(C7_Step)]_vars

\* the recovery from a second stuck episode, which began without an alert
C7_Witness ==
  \E q \in DOMAIN states :
     /\ Len(ToHealthy(About(result.Transitions, q))) = 1
     /\ states[q].LastAlertTime # states[q].StuckSince

----------------------------------------------------------------------------
(* C8: while the history, the new snapshot included, is shorter than        *)
(* threshold_checks, the evaluation is healthy, returns no Alert and no     *)
(* Transition and changes nothing but the history; so no queue is found     *)
(* stuck before it has threshold_checks samples, after a start or a Reset.  *)

C8_Step(q, verdict, transitions, alerts) ==
  Len(states'[q].History) < getConfigForQueue(q).ThresholdChecks =>
     /\ ~verdict.isStuck
     /\ Len(alerts) = 0
     /\ Len(transitions) = 0
     /\ states'[q] = [Before(q) EXCEPT !.History = states'[q].History]

C8_InsufficientHistory == [][Evaluation(C8_Step)]_vars

\* the first sample after a Reset that forgot a stuck queue
C8_Witness ==
  \E q \in DOMAIN states :
     /\ Len(states[q].History) = 1
     /\ getConfigForQueue(q).ThresholdChecks > 1
     /\ q \in DOMAIN lastTransition
     /\ lastTransition[q].ToState = "stuck"
     /\ Last(states[q].History).Timestamp = now

----------------------------------------------------------------------------
(* C9: when the latest snapshot has messages_ready <= min_message_count the *)
(* evaluation is healthy, whatever the history, the rates and the           *)
(* consumers; a Stuck queue recovers in that evaluation.                    *)

C9_Step(q, verdict, transitions, alerts) ==
  Last(states'[q].History).MessagesReady <= getConfigForQueue(q).MinMessageCount =>
     /\ ~verdict.isStuck
     /\ Len(alerts) = 0
     /\ Health(states'[q]) = "healthy"
     /\ Health(Before(q)) = "stuck" => Len(ToHealthy(transitions)) = 1

C9_FewMessagesHealthy == [][Evaluation(C9_Step)]_vars

\* a stuck queue recovers on a sample of exactly min_message_count messages
C9_Witness ==
  \E q \in DOMAIN states :
     /\ Len(ToHealthy(About(result.Transitions, q))) = 1
     /\ Last(states[q].History).MessagesReady = getConfigForQueue(q).MinMessageCount
     /\ Last(states[q].History).Timestamp = now

----------------------------------------------------------------------------
(* C10: with enough history and messages_ready > min_message_count the      *)
(* decision and the reason follow the four-case table on has_activity and   *)
(* the stagnation of the message count.                                     *)

C10_Table(latest, cfg, stagnant) ==
  LET has_activity == \/ cfg.MinConsumeRate < 0
                      \/ latest.ConsumeRate >= cfg.MinConsumeRate
                      \/ latest.AckRate >= cfg.MinConsumeRate
  IN  IF ~has_activity /\ stagnant
        THEN [ isStuck |-> TRUE,
               reason  |-> IF latest.Consumers = 0
                             THEN "no active consumers and messages not being processed"
                             ELSE "consume rate below threshold and messages not decreasing" ]
      ELSE IF ~has_activity /\ ~stagnant
        THEN [isStuck |-> FALSE, reason |-> ""]
      ELSE IF has_activity /\ stagnant
        THEN [ isStuck |-> TRUE,
               reason  |-> "messages not decreasing despite consumer activity" ]
      ELSE [isStuck |-> FALSE, reason |-> ""]

C10_Step(q, verdict, transitions, alerts) ==
  LET cfg == getConfigForQueue(q)
      latest == Last(states'[q].History)
      expected == C10_Table(latest, cfg, isMessageCountStagnant(states'[q], cfg))
  IN  (Len(states'[q].History) >= cfg.ThresholdChecks
         /\ latest.MessagesReady > cfg.MinMessageCount) =>
        /\ verdict.isStuck = expected.isStuck
        /\ verdict.reason = expected.reason
        /\ \A k \in 1..Len(transitions) :
             transitions[k].ToState = "stuck" => transitions[k].Reason = expected.reason
        /\ \A k \in 1..Len(alerts) : alerts[k].Reason = expected.reason

C10_DecisionTable == [][Evaluation(C10_Step)]_vars

\* a queue with consumers whose acks alone count as activity is found stuck
C10_Witness ==
  \E q \in DOMAIN states :
     /\ verdicts # <<>>
     /\ Last(verdicts).isStuck
     /\ Last(verdicts).reason = "messages not decreasing despite consumer activity"
     /\ getConfigForQueue(q).MinConsumeRate >= 0
     /\ Last(states[q].History).ConsumeRate < getConfigForQueue(q).MinConsumeRate
     /\ Last(states[q].History).AckRate >= getConfigForQueue(q).MinConsumeRate

----------------------------------------------------------------------------
(* C11: with a negative min_consume_rate the decision of every evaluation   *)
(* depends on the message counts only: two analyzers fed the same           *)
(* messages_ready and different consume_rate, ack_rate and consumers        *)
(* (SpecTwin) decide alike, and every stuck reason is "messages not         *)
(* decreasing despite consumer activity".                                   *)

C11_Step(q, verdict, transitions, alerts) ==
  getConfigForQueue(q).MinConsumeRate < 0 =>
     \A i \in 1..Len(twin'.verdicts) :
        twin'.verdicts[i].QueueName = q =>
           /\ twin'.verdicts[i].isStuck = verdict.isStuck
           /\ verdict.isStuck =>
                 /\ verdict.reason = "messages not decreasing despite consumer activity"
                 /\ twin'.verdicts[i].reason = verdict.reason
                 /\ \A k \in 1..Len(transitions) :
                       transitions[k].Reason = verdict.reason
                 /\ \A k \in 1..Len(alerts) : alerts[k].Reason = verdict.reason

C11_RateIndependence == [][Evaluation(C11_Step)]_vars

\* both analyzers find the queue stuck, one on a sample without consumers and
\* rates, the other on a sample with consumers that acknowledge
C11_Witness ==
  \E q \in DOMAIN states :
     /\ getConfigForQueue(q).MinConsumeRate < 0
     /\ verdicts # <<>> /\ Last(verdicts).isStuck
     /\ twin.verdicts # <<>> /\ Last(twin.verdicts).isStuck
     /\ Last(states[q].History).Timestamp = now
     /\ Last(states[q].History).Consumers = 0
     /\ Last(states[q].History).AckRate = 0
     /\ Last(twin.states[q].History).Consumers > 0
     /\ Last(twin.states[q].History).AckRate > 0

----------------------------------------------------------------------------
(* C12: a consume rate below min_consume_rate alone does not make a queue   *)
(* stuck.  As stated: with enough history and messages_ready above          *)
(* min_message_count, an evaluation whose latest consume_rate and ack_rate  *)
(* are both below a non-negative min_consume_rate is stuck.                 *)

\* the evaluations the claim is about
C12_LowRate(q) ==
  LET cfg == getConfigForQueue(q)
      latest == Last(states'[q].History)
  IN  /\ Len(states'[q].History) >= cfg.ThresholdChecks
      /\ latest.MessagesReady > cfg.MinMessageCount
      /\ cfg.MinConsumeRate >= 0
      /\ latest.ConsumeRate < cfg.MinConsumeRate
      /\ latest.AckRate < cfg.MinConsumeRate

C12_StepAsStated(q, verdict, transitions, alerts) ==
  C12_LowRate(q) => verdict.isStuck

C12_Step(q, verdict, transitions, alerts) ==
  LET cfg == getConfigForQueue(q)
      history == states'[q].History
      window == LastN(history, Min(cfg.ThresholdChecks, Len(history)))
      decrease == window[1].MessagesReady - Last(window).MessagesReady
      draining == decrease >= 1 /\ decrease >= Len(window) - 1
  IN  C12_LowRate(q) =>
         /\ verdict.isStuck <=> (Len(history) >= 2 /\ ~draining)
         /\ verdict.isStuck =>
               verdict.reason =
                 (IF Last(history).Consumers = 0
                    THEN "no active consumers and messages not being processed"
                    ELSE "consume rate below threshold and messages not decreasing")

----------------------------------------------------------------------------
(* Scenarios: a fresh queue under the shipped settings (threshold_checks 3, *)
(* min_message_count 10, min_consume_rate 0.1), fed one sample per tick     *)

\* the history after the evaluation holds exactly the samples counts, each
\* with consume_rate 0
FedAtZeroRate(q, counts) ==
  LET history == states'[q].History
  IN  /\ getConfigForQueue(q) = DefaultDetection
      /\ Len(history) = Len(counts)
      /\ \A k \in 1..Len(counts) :
            /\ history[k].MessagesReady = counts[k]
            /\ history[k].ConsumeRate = 0

\* ... and each without consumers (and so without acknowledgements)
FedWithoutConsumers(q, counts) ==
  /\ FedAtZeroRate(q, counts)
  /\ \A k \in 1..Len(counts) :
        /\ states'[q].History[k].Consumers = 0
        /\ states'[q].History[k].AckRate = 0

(* C13, as stated: fed messages_ready 50, 50, 50 with consume_rate 0 and    *)
(* consumers 0, the queue is Stuck after the third snapshot, with reason    *)
(* "no active consumers and messages not being processed".                  *)

C13_StepAsStated(q, verdict, transitions, alerts) ==
  FedWithoutConsumers(q, <<50, 50, 50>>) =>
     /\ Health(states'[q]) = "stuck"
     /\ verdict.reason = "no active consumers and messages not being processed"

C13_StuckAfterThree == [][Evaluation(C13_StepAsStated)]_vars

(* C13, amended: the third evaluation has a stuck decision with that        *)
(* reason and leaves the queue Healthy with consecutive_stuck 1, without    *)
(* Transition or Alert; fed 50 twice more, the queue is Stuck after the     *)
(* fifth snapshot, whose evaluation emits the Healthy->Stuck Transition and *)
(* an Alert with that reason.                                               *)

C13_Step(q, verdict, transitions, alerts) ==
  /\ FedWithoutConsumers(q, <<50, 50, 50>>) =>
        /\ verdict.isStuck
        /\ verdict.reason = "no active consumers and messages not being processed"
        /\ states'[q].ConsecutiveStuck = 1
        /\ Health(states'[q]) = "healthy"
        /\ Len(transitions) = 0 /\ Len(alerts) = 0
  /\ (now' = 5 /\ FedWithoutConsumers(q, <<50, 50, 50, 50>>)) =>
        /\ verdict.isStuck
        /\ verdict.reason = "no active consumers and messages not being processed"
        /\ states'[q].ConsecutiveStuck = 3
        /\ Health(Before(q)) = "healthy" /\ Health(states'[q]) = "stuck"
        /\ Len(ToStuck(transitions)) = 1 /\ Len(alerts) = 1
        /\ transitions[1].Reason = verdict.reason
        /\ alerts[1].Reason = verdict.reason

C13_StuckDecisionAfterThree == [][Evaluation(C13_Step)]_vars

\* the third sample of 50, 50, 50 has been evaluated: a first stuck decision
C13_Witness ==
  \E q \in DOMAIN states :
     /\ now = 3
     /\ getConfigForQueue(q) = DefaultDetection
     /\ Len(states[q].History) = 3
     /\ \A k \in 1..3 : /\ states[q].History[k].MessagesReady = 50
                        /\ states[q].History[k].Consumers = 0
                        /\ states[q].History[k].AckRate = 0
     /\ Last(verdicts).isStuck
     /\ states[q].ConsecutiveStuck = 1

----------------------------------------------------------------------------
(* C14: fed messages_ready 50, 40, 25 with consume_rate 0, every evaluation *)
(* is healthy: the queue stays Healthy with consecutive_stuck 0, and no     *)
(* Alert and no Transition is emitted.                                      *)

C14_Step(q, verdict, transitions, alerts) ==
  (\/ FedAtZeroRate(q, <<50>>)
   \/ FedAtZeroRate(q, <<50, 40>>)
   \/ FedAtZeroRate(q, <<50, 40, 25>>)) =>
     /\ ~verdict.isStuck
     /\ states'[q].ConsecutiveStuck = 0
     /\ Health(states'[q]) = "healthy"
     /\ Len(transitions) = 0 /\ Len(alerts) = 0

C14_DrainingAtZeroRate == [][Evaluation(C14_Step)]_vars

\* the third sample of 50, 40, 25 has been evaluated on full history, without
\* consumers, rates or acknowledgements
C14_Witness ==
  \E q \in DOMAIN states :
     /\ now = 3
     /\ getConfigForQueue(q) = DefaultDetection
     /\ Len(states[q].History) = 3
     /\ states[q].History[1].MessagesReady = 50
     /\ states[q].History[2].MessagesReady = 40
     /\ states[q].History[3].MessagesReady = 25
     /\ \A k \in 1..3 : /\ states[q].History[k].ConsumeRate = 0
                        /\ states[q].History[k].AckRate = 0
                        /\ states[q].History[k].Consumers = 0
     /\ ~Last(verdicts).isStuck

----------------------------------------------------------------------------
(* The Stagnation Test of the specification over a window of snapshots *)

StagnationTest(window) ==
  LET first == window[1].MessagesReady
      last == window[Len(window)].MessagesReady
  IN  IF first <= 0 /\ last <= 0 THEN FALSE
      ELSE IF last > first THEN TRUE
      ELSE IF last = first THEN TRUE
      ELSE (first - last) < Len(window) - 1

\* the last min(threshold_checks, history length) samples
Window(history, T) ==
  [k \in 1..Min(T, Len(history)) |-> history[Len(history) - Min(T, Len(history)) + k]]

(* C15, as stated: for every history and threshold_checks >= 1,             *)
(* isMessageCountStagnant returns the result of the Stagnation Test over    *)
(* the last min(threshold_checks, history length) samples, windows of a     *)
(* single sample included.                                                  *)

C15_StagnationTest ==
  returned.called =>
     returned.stagnant =
       StagnationTest(Window(states[Orders].History,
                             getConfigForQueue(Orders).ThresholdChecks))

(* C15, amended: it does so for every history of at least two samples       *)
(* (windows of one sample under threshold_checks = 1 included); on a        *)
(* history of a single sample it returns not stagnant.                      *)

C15_StagnationTestFromTwoSamples ==
  returned.called =>
     returned.stagnant =
       (IF Len(states[Orders].History) < 2
          THEN FALSE
          ELSE StagnationTest(Window(states[Orders].History,
                                     getConfigForQueue(Orders).ThresholdChecks)))

\* the call was made on a full history of threshold_checks+1 samples: the
\* decrease since the oldest sample would do, but the window shows none
C15_Witness ==
  LET history == states[Orders].History
      T == getConfigForQueue(Orders).ThresholdChecks
  IN  /\ returned.called
      /\ returned.stagnant
      /\ Len(history) = T + 1
      /\ T >= 2
      /\ history[1].MessagesReady - Last(history).MessagesReady >= T
      /\ history[2].MessagesReady = Last(history).MessagesReady
      /\ Last(history).MessagesReady > 0

----------------------------------------------------------------------------
(* C16: for every threshold_checks >= 1, a queue whose messages_ready       *)
(* decreases by at least 1 message at every sample (SpecDraining) never     *)
(* gets a stuck decision, never becomes Stuck and never produces an Alert.  *)

C16_Step(q, verdict, transitions, alerts) ==
  /\ ~verdict.isStuck
  /\ Health(states'[q]) = "healthy"
  /\ Len(transitions) = 0
  /\ Len(alerts) = 0

C16_ProgressNeverStuck == [][Evaluation(C16_Step)]_vars

----------------------------------------------------------------------------
(* Vocabulary of the properties of the service *)

\* the step is the end of a performCheck
Finished == Len(checks') < Len(checks)

\* ... whose fetch succeeded: tick' tells which queues passed the filter
\* (present) and which of them were sampled
Fetched == Finished /\ tick'.outcome # "failed"

\* ... whose fetch failed
FetchFailed == Finished /\ tick'.outcome = "failed"

\* the interval a queue is checked at: its configured one, or monitor.interval
ResolvedInterval(n) ==
  IF n \in DOMAIN service.queueIntervals THEN service.queueIntervals[n]
                                         ELSE service.Interval

\* the number of whole intervals of length i between the start and time t
WindowOf(t, i) == (t - service.startTime) \div i

\* queue n was sampled before this step
Sampled(n) == n \in DOMAIN service.lastCheckTimes

----------------------------------------------------------------------------
(* C17: the service has one ticker, whose period is the minimum of          *)
(* monitor.interval and the intervals of the configured queues; a queue     *)
(* whose interval is not configured, discovered ones included, is paced at  *)
(* monitor.interval: it is sampled when first seen and then in the first    *)
(* check of each window of that length, counted from the start time.        *)

C17_Step ==
  /\ ticker'.period # 0 =>
        /\ ticker'.period <= service'.Interval
        /\ \A n \in DOMAIN service'.queueIntervals :
              ticker'.period <= service'.queueIntervals[n]
        /\ \/ ticker'.period = service'.Interval
           \/ \E n \in DOMAIN service'.queueIntervals :
                 ticker'.period = service'.queueIntervals[n]
        /\ ticker'.running => ticker'.next - now' \in 1..ticker'.period
  /\ Fetched =>
        \A n \in tick'.present :
           ResolvedInterval(n) = service.Interval =>
              (n \in tick'.sampled <=>
                 (Sampled(n) =>
                    WindowOf(tick'.at, service.Interval)
                      > WindowOf(service.lastCheckTimes[n], service.Interval)))

C17_SharedTimer == [][C17_Step]_vars

\* the ticker runs faster than monitor.interval: a check has sampled the
\* queue with the short interval and left out one paced at monitor.interval
C17_Witness ==
  /\ ticker.period # 0
  /\ ticker.period < service.Interval
  /\ tick.outcome = "analyzed"
  /\ tick.byTicker
  /\ \E n \in tick.present \ tick.sampled : ResolvedInterval(n) = service.Interval
  /\ \E n \in tick.sampled : ResolvedInterval(n) = ticker.period

----------------------------------------------------------------------------
(* C18: sampling is anchored to the multiples of a queue's interval counted *)
(* from the start time: a queue seen before is sampled exactly when a       *)
(* multiple of its interval lies after its last sample and not after the    *)
(* check.  So two monitored queues with the same interval that were in      *)
(* every fetch are sampled in the same checks.                              *)

C18_Step ==
  Fetched =>
    /\ \A n \in tick'.present :
          Sampled(n) =>
            (n \in tick'.sampled <=>
               \E k \in 0..MaxClock :
                  LET boundary == service.startTime + k * ResolvedInterval(n)
                  IN  /\ service.lastCheckTimes[n] < boundary
                      /\ boundary <= tick'.at)
    /\ \A a, b \in QueueNames \ tick'.missed :
          (ResolvedInterval(a) = ResolvedInterval(b)
             /\ (DOMAIN service.queueIntervals = {}
                   \/ {a, b} \subseteq DOMAIN service.queueIntervals)) =>
            (a \in tick'.sampled <=> b \in tick'.sampled)

C18_AnchoredSampling == [][C18_Step]_vars

\* a queue sampled late in a window of its interval is sampled again at the
\* next multiple, less than an interval later, together with its companion
C18_Witness ==
  /\ tick.outcome = "analyzed"
  /\ tick.missed = {}
  /\ tick.sampled = QueueNames
  /\ ResolvedInterval(Orders) = ResolvedInterval(Payments)
  /\ ResolvedInterval(Orders) >= 2
  /\ Orders \in DOMAIN states
  /\ Len(states[Orders].History) >= 2
  /\ LET h == states[Orders].History
     IN  h[Len(h)].Timestamp - h[Len(h) - 1].Timestamp < ResolvedInterval(Orders)

----------------------------------------------------------------------------
(* C19: a fetch failure aborts the current check only: nothing of the       *)
(* service or of the analyzer is modified, no Alert and no Transition is    *)
(* produced, the loop goes back to waiting with its ticker running, and in  *)
(* the next check whose fetch succeeds every queue that was due at the      *)
(* failed one is sampled if it is there.                                    *)

C19_Step ==
  /\ FetchFailed =>
        /\ service' = service
        /\ UNCHANGED <<states, result, verdicts, lastTransition, lastAlert>>
        /\ loop.pc = "check" /\ loop'.pc = "select"
        /\ ticker' = ticker /\ ticker.running
  /\ (Fetched /\ tick.outcome = "failed") =>
        \A n \in tick'.present :
           shouldCheck(n, service.lastCheckTimes, tick.at) => n \in tick'.sampled

C19_FetchFailureAbortsTick == [][C19_Step]_vars

\* a check started by the ticker has failed while a queue sampled before was
\* due again; the loop is back in its select
C19_Witness ==
  /\ tick.outcome = "failed"
  /\ tick.byTicker
  /\ loop.pc = "select"
  /\ ticker.running
  /\ \E n \in DOMAIN service.lastCheckTimes :
       /\ n \in DOMAIN states
       /\ shouldCheck(n, service.lastCheckTimes, tick.at)

----------------------------------------------------------------------------
(* C20: checks are serialized: at most one performCheck is in progress; the *)
(* loop has begun no more checks from the ticker than the ticker has sent   *)
(* ticks, a tick that arrives during a check waiting in the channel; and    *)
(* the histories, counters and timestamps of the queues change only in the  *)
(* step that ends the check the loop is in.                                 *)

C20_Step ==
  /\ Len(checks') <= 1
  /\ loop'.ran <= ticker'.fired
  /\ Len(checks') = 1 => loop'.pc = "check"
  /\ (states' # states \/ service'.lastCheckTimes # service.lastCheckTimes) =>
        /\ Fetched
        /\ loop.pc = "check" /\ loop'.pc = "select"

C20_SerializedTicks == [][C20_Step]_vars

\* a check takes longer than the ticker's period: a tick waits in the
\* channel, the next one was not sent
C20_Witness ==
  /\ Len(checks) = 1
  /\ loop.pc = "check"
  /\ ticker.pending
  /\ now - checks[1].now > ticker.period
  /\ loop.ran = ticker.fired - 1

----------------------------------------------------------------------------
(* C21: cancellation is cooperative: the loop of Start leaves only from its *)
(* select, when no check is in progress, and a check that is in progress    *)
(* when main calls Stop has finished when main reports "Monitor stopped"    *)
(* and runMonitor returns.                                                  *)

\* the loop observes the stop signal in this step
C21_Observed == loop.pc # "done" /\ loop'.pc = "done"

\* runMonitor returns in this step
C21_Returned == main.pc # "returned" /\ main'.pc = "returned"

C21_Step ==
  /\ C21_Observed => loop.pc = "select" /\ checks = <<>>
  /\ C21_Returned => checks = <<>>

C21_CooperativeCancellation == [][C21_Step]_vars

----------------------------------------------------------------------------
(* C22: an invalid configuration is fatal at startup: when a threshold_checks *)
(* in effect is below 1 or a sampling interval in effect is not positive,     *)
(* in the global settings or in the override of a queue, no ticker runs and   *)
(* no check is ever begun.                                                    *)

\* a threshold_checks or an interval of the configuration is invalid
C22_Invalid(cfg) ==
  \/ cfg.Monitor.Interval <= 0
  \/ cfg.Monitor.Detection.ThresholdChecks < 1
  \/ \E i \in 1..Len(cfg.Monitor.Queues) :
        LET q == cfg.Monitor.Queues[i]
        IN  \/ q.CheckInterval # Nil /\ Deref(q.CheckInterval) <= 0
            \/ q.ThresholdChecks # Nil /\ Deref(q.ThresholdChecks) < 1

\* the scheduler has begun ticking
C22_Ticking ==
  \/ ticker.running
  \/ loop.pc \in {"first", "check", "select"}
  \/ checks # <<>>
  \/ tick # NoTick

C22_InvalidConfigIsFatal == C22_Invalid(main.cfg) => ~C22_Ticking

----------------------------------------------------------------------------
(* Vocabulary of the notification properties *)

\* this step ends a check that called Analyze
Routed == Fetched /\ tick'.outcome = "analyzed"

\* SendAlert was called for a transition that was handled
Attempted(h) == h.outcome \in {"sent", "failed"}

\* last_notification_time of queue q before the check, and whether it is set
LastNotification(q) == Before(q).LastSlackAlert

Notified(q) == LastNotification(q) # ZeroTime

\* the i-th transition of the check was handed to handleStateTransition
HandledAs(i) ==
  /\ i <= Len(tick'.handled)
  /\ tick'.handled[i].QueueName = result'.Transitions[i].QueueName
  /\ tick'.handled[i].FromState = result'.Transitions[i].FromState
  /\ tick'.handled[i].ToState = result'.Transitions[i].ToState

----------------------------------------------------------------------------
(* C23: with Slack enabled, every transition of a check is gated on the one *)
(* last_notification_time of its queue: a Healthy->Stuck transition is held *)
(* back exactly when that time is set and less than alert_cooldown before   *)
(* the time of the check; a Stuck->Healthy transition is held back exactly  *)
(* when recovery notifications are disabled or that time is set and less    *)
(* than recovery_cooldown before the time of the check; in every other case *)
(* SendAlert is called.                                                     *)

C23_Step ==
  Routed /\ service.slackClient # "nil" =>
    \A i \in 1..Len(result'.Transitions) :
      LET tr == result'.Transitions[i]
          elapsed == tick'.at - LastNotification(tr.QueueName)
      IN  /\ HandledAs(i)
          /\ tr.ToState = "stuck" =>
               ( Attempted(tick'.handled[i]) <=>
                   ~(Notified(tr.QueueName) /\ elapsed < service.Slack.AlertCooldown) )
          /\ tr.ToState = "healthy" =>
               ( Attempted(tick'.handled[i]) <=>
                   /\ service.Slack.SendRecovery
                   /\ ~(Notified(tr.QueueName)
                          /\ elapsed < service.Slack.RecoveryCooldown) )

----------------------------------------------------------------------------
(* C24: the notifications of the two kinds are gated independently: a       *)
(* Stuck->Healthy transition (recovery notifications enabled) is not held   *)
(* back unless a recovery notification was delivered less than              *)
(* recovery_cooldown before, and a Healthy->Stuck transition is not held    *)
(* back unless a stuck notification was delivered less than alert_cooldown  *)
(* before.                                                                  *)

\* when the last notification of the kind of transition tr was delivered
C24_LastOfKind(tr) ==
  IF tr.QueueName \in DOMAIN tick.notified
    THEN tick.notified[tr.QueueName][tr.ToState]
    ELSE ZeroTime

C24_Cooldown(tr) ==
  IF tr.ToState = "stuck" THEN service.Slack.AlertCooldown
                          ELSE service.Slack.RecoveryCooldown

C24_Step ==
  Routed /\ service.slackClient # "nil" =>
    \A i \in 1..Len(result'.Transitions) :
      LET tr == result'.Transitions[i]
      IN  ( /\ tr.ToState = "healthy" => service.Slack.SendRecovery
            /\ \/ C24_LastOfKind(tr) = ZeroTime
               \/ tick'.at - C24_LastOfKind(tr) >= C24_Cooldown(tr) )
          => HandledAs(i) /\ Attempted(tick'.handled[i])

C24_IndependentCooldowns == [][C24_Step]_vars

----------------------------------------------------------------------------
(* C25: a delivery failure does not roll back the health tracking: when     *)
(* SendAlert fails for a transition, the queue keeps the current_health,    *)
(* stuck_since and consecutive_stuck that Analyze gave it, the error is     *)
(* returned and logged, and last_notification_time stays as it was; it      *)
(* changes only in a check that delivered a notification for the queue, to  *)
(* the time of that check.                                                  *)

\* what isQueueStuck returned for queue q in the check that ends in this step
C25_Verdict(q) ==
  LET i == CHOOSE i \in 1..Len(verdicts') : verdicts'[i].QueueName = q
  IN  verdicts'[i]

C25_Step ==
  Routed /\ service.slackClient # "nil" =>
    /\ \A i \in 1..Len(tick'.handled) :
         LET h == tick'.handled[i]
             q == h.QueueName
         IN  h.outcome = "failed" =>
               /\ h.err # "nil"
               /\ \E j \in 1..Len(tick'.logged) :
                    tick'.logged[j].level = "error" /\ tick'.logged[j].queue = q
               /\ Health(states'[q]) = h.ToState
               /\ Health(Before(q)) = h.FromState
               /\ states'[q].StuckSince =
                    IF h.ToState = "stuck" THEN now' ELSE Before(q).StuckSince
               /\ states'[q].ConsecutiveStuck =
                    IF C25_Verdict(q).isStuck THEN Before(q).ConsecutiveStuck + 1 ELSE 0
               /\ states'[q].LastSlackAlert = LastNotification(q)
    /\ \A q \in DOMAIN states' :
         states'[q].LastSlackAlert # LastNotification(q) =>
           /\ states'[q].LastSlackAlert = tick'.at
           /\ \E i \in 1..Len(tick'.handled) :
                tick'.handled[i].QueueName = q /\ tick'.handled[i].outcome = "sent"

C25_FailureKeepsHealthState == [][C25_Step]_vars

\* the delivery of a stuck notification failed at every webhook: the queue
\* is Stuck since this check, and the time of the notification delivered
\* before is still there
C25_Witness ==
  /\ Len(tick.handled) = 1
  /\ tick.handled[1].outcome = "failed"
  /\ tick.handled[1].ToState = "stuck"
  /\ Len(tick.handled[1].posts) = 2
  /\ states[Orders].LastKnownState = "stuck"
  /\ states[Orders].StuckSince >= tick.at
  /\ states[Orders].ConsecutiveStuck = 1
  /\ states[Orders].LastSlackAlert # ZeroTime
  /\ states[Orders].LastSlackAlert < tick.at

----------------------------------------------------------------------------
(* C26: SendAlert of an enabled client makes one POST to every webhook URL  *)
(* that is not empty, in the order of the configuration and whatever the    *)
(* other webhooks answer; it returns an error only if no POST succeeded;    *)
(* a client that is not enabled makes no POST and returns no error.         *)

\* the POSTs to the webhooks from the i-th on, whatever they answer
RECURSIVE C26_Posts(_, _, _)
C26_Posts(webhookURLs, responds, i) ==
  IF i > Len(webhookURLs) THEN <<>>
  ELSE ( IF webhookURLs[i] = "" THEN <<>>
         ELSE <<[url |-> webhookURLs[i], ok |-> responds[i]]>> )
       \o C26_Posts(webhookURLs, responds, i + 1)

C26_SendAlert ==
  returned.called =>
    /\ service.Slack.Enabled =>
         returned.posts = C26_Posts(service.Slack.WebhookURLs, returned.responds, 1)
    /\ returned.err # "nil" =>
         \A i \in 1..Len(returned.posts) : ~returned.posts[i].ok
    /\ ~service.Slack.Enabled =>
         returned.posts = <<>> /\ returned.err = "nil"

\* the first webhook failed, the second one was tried and took the message:
\* no error is returned
C26_Witness ==
  /\ returned.called
  /\ service.Slack.Enabled
  /\ Len(returned.posts) = 2
  /\ ~returned.posts[1].ok
  /\ returned.posts[2].ok
  /\ returned.err = "nil"

----------------------------------------------------------------------------
(* C27: notifications are made from Transitions only: the transitions       *)
(* handled in a check are the Transitions that Analyze returned in that     *)
(* check, one for one, and nothing is handled in a check that analyzed      *)
(* nothing; so a notification for a queue is attempted only in the check    *)
(* in which its health changes, and while a queue stays Stuck from one      *)
(* check to the next, alerted or not, nothing is sent for it and the time   *)
(* of its last stuck notification stays the same.                           *)

\* something about queue q was handed to handleStateTransition
C27_Handled(q) ==
  \E i \in 1..Len(tick'.handled) : tick'.handled[i].QueueName = q

C27_Step ==
  /\ Finished /\ ~Routed => tick'.handled = <<>> /\ tick'.notified = tick.notified
  /\ Routed =>
       /\ Len(tick'.handled) <= Len(result'.Transitions)
       /\ \A i \in 1..Len(tick'.handled) :
            /\ HandledAs(i)
            /\ Health(Before(tick'.handled[i].QueueName)) = tick'.handled[i].FromState
            /\ Health(states'[tick'.handled[i].QueueName]) = tick'.handled[i].ToState
       /\ \A q \in DOMAIN states' :
            Health(Before(q)) = "stuck" /\ Health(states'[q]) = "stuck" =>
              /\ ~C27_Handled(q)
              /\ q \in DOMAIN tick.notified =>
                   tick'.notified[q].stuck = tick.notified[q].stuck

C27_TransitionsOnly == [][C27_Step]_vars

\* the queue was found stuck in three checks in a row, without cooldown: one
\* stuck notification was delivered, in the first of them
C27_Witness ==
  /\ service.slackClient # "nil"
  /\ service.Slack.AlertCooldown = 0
  /\ tick.outcome = "analyzed"
  /\ tick.handled = <<>>
  /\ Orders \in DOMAIN states
  /\ states[Orders].ConsecutiveStuck >= 3
  /\ Orders \in DOMAIN tick.notified
  /\ tick.notified[Orders].stuck # ZeroTime
  /\ tick.at - tick.notified[Orders].stuck >= 2

----------------------------------------------------------------------------
(* C28: the fan-out of the result of a check.                               *)

\* every Alert of the check went to the Logger, in order, before anything
\* about the transitions
C28_AlertsLogged ==
  /\ Len(tick'.logged) >= Len(result'.StuckAlerts)
  /\ \A i \in 1..Len(result'.StuckAlerts) :
       /\ tick'.logged[i].msg = "STUCK QUEUE DETECTED"
       /\ tick'.logged[i].queue = result'.StuckAlerts[i].QueueName

\* every Transition of the check went to handleStateTransition, and the
\* Logger received a line about each
C28_TransitionsForwarded ==
  /\ Len(tick'.handled) = Len(result'.Transitions)
  /\ Len(tick'.logged) = Len(result'.StuckAlerts) + Len(result'.Transitions)
  /\ \A i \in 1..Len(result'.Transitions) :
       /\ HandledAs(i)
       /\ tick'.logged[Len(result'.StuckAlerts) + i].queue
            = result'.Transitions[i].QueueName

\* C28 as stated: in every check that analyzes queues, every Alert goes to
\* the Logger and every Transition goes to the Logger and to the
\* Dispatcher, whether Slack notifications are enabled or not.
C28_StepAsStated == Routed => C28_AlertsLogged /\ C28_TransitionsForwarded

C28_Step ==
  Routed =>
    /\ C28_AlertsLogged
    /\ IF service.slackClient # "nil"
         THEN C28_TransitionsForwarded
         ELSE /\ tick'.handled = <<>>
              /\ Len(tick'.logged) = Len(result'.StuckAlerts)

----------------------------------------------------------------------------
(* C29: configuration is resolved by a pure merge: once monitor.New has     *)
(* run, each of threshold_checks, min_message_count, min_consume_rate and   *)
(* the check interval of a configured queue is its own override when the    *)
(* entry sets one and the global value otherwise, whatever the entry does   *)
(* about the other three; the loaded configuration, global values included, *)
(* is never changed; and a queue without an entry is evaluated with the     *)
(* global detection settings and checked at the global interval.            *)

\* the override, or the global value when there is none
C29_Merge(override, global) == IF override = Nil THEN global ELSE override[1]

\* the names of the entries of monitor.queues
C29_Configured(cfg) ==
  { cfg.Monitor.Queues[i].Name : i \in 1..Len(cfg.Monitor.Queues) }

C29_Step ==
  /\ main'.cfg = main.cfg
  /\ loop'.pc # "none" =>
       LET cfg == main.cfg
           global == cfg.Monitor.Detection
       IN  /\ defaultConfig' = global
           /\ service'.Interval = cfg.Monitor.Interval
           /\ \A i \in 1..Len(cfg.Monitor.Queues) :
                LET q == cfg.Monitor.Queues[i]
                    resolved == getConfigForQueue(q.Name)'
                IN  /\ resolved.ThresholdChecks
                         = C29_Merge(q.ThresholdChecks, global.ThresholdChecks)
                    /\ resolved.MinMessageCount
                         = C29_Merge(q.MinMessageCount, global.MinMessageCount)
                    /\ resolved.MinConsumeRate
                         = C29_Merge(q.MinConsumeRate, global.MinConsumeRate)
                    /\ checkIntervalOf(q.Name)'
                         = C29_Merge(q.CheckInterval, cfg.Monitor.Interval)
           /\ \A n \in QueueNames \ C29_Configured(cfg) :
                /\ getConfigForQueue(n)' = global
                /\ checkIntervalOf(n)' = cfg.Monitor.Interval

C29_PureMerge == [][C29_Step]_vars

\* the entry of the queue overrides threshold_checks and the interval and
\* leaves the other two settings to the global values; the first check has
\* sampled the queue
C29_Witness ==
  /\ Len(main.cfg.Monitor.Queues) = 1
  /\ main.cfg.Monitor.Queues[1].ThresholdChecks # Nil
  /\ main.cfg.Monitor.Queues[1].CheckInterval # Nil
  /\ main.cfg.Monitor.Queues[1].MinMessageCount = Nil
  /\ main.cfg.Monitor.Queues[1].MinConsumeRate = Nil
  /\ Orders \in DOMAIN queueConfigs
  /\ queueConfigs[Orders].ThresholdChecks # defaultConfig.ThresholdChecks
  /\ queueConfigs[Orders].MinMessageCount = defaultConfig.MinMessageCount
  /\ service.queueIntervals[Orders] # service.Interval
  /\ tick.sampled = {Orders}

----------------------------------------------------------------------------
(* C30: in every check whose fetch succeeds, the queues handed to Analyze   *)
(* are the fetched queues that pass the allow-list (every fetched queue     *)
(* when monitor.queues is empty) and are due, in the order of the fetch;    *)
(* Analyze evaluates them in that order, and its Alerts and its Transitions *)
(* come in that order; a queue that is not in a non-empty allow-list is     *)
(* never sampled.                                                           *)

\* the allow-list of the configuration
C30_AllowList == C29_Configured(main.cfg)

C30_Allowed(n) == C30_AllowList = {} \/ n \in C30_AllowList

\* the names of the queues of a sequence of events
C30_Queues(events) == [ i \in 1..Len(events) |-> events[i].QueueName ]

\* the queues of the check that occur in a sequence of events, in the order
\* in which they were handed to Analyze
C30_InOrder(events) ==
  SelectSeq(tick'.analyzed,
            LAMBDA n : \E i \in 1..Len(events) : events[i].QueueName = n)

C30_Step ==
  /\ Fetched =>
       /\ tick'.analyzed =
            SelectSeq(tick'.fetched, LAMBDA n : C30_Allowed(n) /\ n \in tick'.due)
       /\ tick'.analyzed # <<>> =>
            /\ C30_Queues(verdicts') = tick'.analyzed
            /\ C30_Queues(result'.StuckAlerts) = C30_InOrder(result'.StuckAlerts)
            /\ C30_Queues(result'.Transitions) = C30_InOrder(result'.Transitions)
  /\ \A n \in DOMAIN states' \cup DOMAIN service'.lastCheckTimes : C30_Allowed(n)

C30_FetchOrder == [][C30_Step]_vars

\* both queues are on the allow-list, payments is listed after orders but
\* fetched before it; the check sampled both and marked both stuck, with an
\* Alert and a Transition for payments first
C30_Witness ==
  /\ main.cfg.Monitor.Queues # <<>>
  /\ main.cfg.Monitor.Queues[1].Name = Orders
  /\ tick.outcome = "analyzed"
  /\ tick.fetched = <<Payments, Orders>>
  /\ tick.analyzed = <<Payments, Orders>>
  /\ C30_Queues(result.StuckAlerts) = <<Payments, Orders>>
  /\ C30_Queues(result.Transitions) = <<Payments, Orders>>
  /\ result.Transitions[1].Timestamp >= tick.at

----------------------------------------------------------------------------
(* Vocabulary of the PID file properties *)

\* Create has returned nil in process p and the process has not ended
Holds(p) == instances[p].pc = "running"

----------------------------------------------------------------------------
\* C31: the PID file prevents multiple instances: whatever the interleaving
\* of two processes calling Create on the same path, at most one Create
\* succeeds while the other process is still running, so two instances never
\* run at the same time; and Create returns an error when the file names a
\* running process
C31_SameTime(p, q) ==
  /\ p # q
  /\ Holds(p)
  /\ Holds(q)
  /\ instances[p].path = instances[q].path

C31_SingleInstance == \A p, q \in Pids : ~C31_SameTime(p, q)

----------------------------------------------------------------------------
\* C32: if no queue is due in a tick, the tick is a no-op: the Analyzer is
\* not invoked, no Alert, Transition or notification is produced, and no
\* last-sample time and no Analyzer state changes
C32_NothingDue == Fetched /\ tick'.due = {}

C32_Step ==
  C32_NothingDue =>
    /\ tick'.outcome = "idle"
    /\ tick'.analyzed = <<>>
    /\ UNCHANGED <<defaultConfig, queueConfigs, states, result, verdicts,
                   lastTransition, lastAlert>>
    /\ tick'.logged = <<>>
    /\ tick'.handled = <<>>
    /\ tick'.notified = tick.notified
    /\ service'.lastCheckTimes = service.lastCheckTimes

C32_EmptyTickIsNoOp == [][C32_Step]_vars

\* a tick found nothing due after the queue was marked stuck and the
\* notification was sent: the result of the tick before is still there
C32_Witness ==
  /\ tick.outcome = "idle"
  /\ tick.byTicker
  /\ tick.present = {Orders}
  /\ service.slackClient # "nil"
  /\ ToStuck(result.Transitions) # <<>>
  /\ result.StuckAlerts # <<>>
  /\ Orders \in DOMAIN states
  /\ states[Orders].LastSlackAlert # ZeroTime

----------------------------------------------------------------------------
\* C33: per-queue isolation: evaluating one queue in Analyze reads and
\* writes only that queue's own state.  In a tick with several due queues
\* every due queue is evaluated exactly once, with the outcome it would have
\* had if it had been evaluated alone on its own state, and a queue that is
\* not in the due set of the tick has no state change
C33_Own(n) == IF n \in DOMAIN states THEN n :> states[n] ELSE EmptyMap

\* the sample of queue n that the tick appended to its history
C33_Sample(n) ==
  LET snapshot == Last(states'[n].History)
  IN  [ Name          |-> n,
        MessagesReady |-> snapshot.MessagesReady,
        Consumers     |-> snapshot.Consumers,
        ConsumeRate   |-> snapshot.ConsumeRate,
        AckRate       |-> snapshot.AckRate ]

\* queue n evaluated alone, by an Analyzer that holds no other queue's state
C33_Alone(n) ==
  AnalyzeLoop([ states |-> C33_Own(n), alerts |-> <<>>,
                transitions |-> <<>>, verdicts |-> <<>> ],
              <<C33_Sample(n)>>, 1, now)

C33_Evaluations(n) == SelectSeq(verdicts', LAMBDA v : v.QueueName = n)

C33_Step ==
  Fetched =>
    \A n \in QueueNames :
      IF n \in tick'.due
        THEN /\ Len(C33_Evaluations(n)) = 1
             /\ n \in DOMAIN states'
             /\ Last(states'[n].History).Timestamp = now
             /\ states'[n] = C33_Alone(n).states[n]
             /\ C33_Evaluations(n) = C33_Alone(n).verdicts
             /\ About(result'.Transitions, n) = C33_Alone(n).transitions
             /\ About(result'.StuckAlerts, n) = C33_Alone(n).alerts
        ELSE /\ n \in DOMAIN states' <=> n \in DOMAIN states
             /\ n \in DOMAIN states => states'[n] = states[n]
             /\ tick'.outcome = "analyzed" => Len(C33_Evaluations(n)) = 0

C33_QueueIsolation == [][C33_Step]_vars

\* one tick evaluated both queues and marked both stuck, payments first
C33_Witness ==
  /\ tick.outcome = "analyzed"
  /\ tick.analyzed = <<Payments, Orders>>
  /\ Len(ToStuck(About(result.Transitions, Payments))) = 1
  /\ Len(ToStuck(About(result.Transitions, Orders))) = 1
  /\ states[Orders].ConsecutiveStuck = 2
  /\ states[Payments].ConsecutiveStuck = 1

----------------------------------------------------------------------------
\* C34: after Stop is called on a running Service, the loop in Start
\* eventually terminates and returns nil (under fair scheduling of the select
\* between the timer and the stop channel); before Stop is called the loop
\* never terminates on its own, including after failed ticks
C34_Stopped == service.stopChan = "closed"

C34_Terminated == loop.pc = "done"

C34_StopTerminates == C34_Stopped ~> C34_Terminated

----------------------------------------------------------------------------
\* C35: a queue is sampled at most once per interval slot: for a queue with
\* resolved interval I and every k >= 0, at most one tick with its time in
\* [start + k*I, start + (k+1)*I) samples the queue (a queue seen for the
\* first time is sampled by the tick that first sees it); and when a
\* successful tick containing the queue falls in a slot, the queue is sampled
\* exactly once in that slot, by the first such tick.  Ticks come in the
\* order of their times and lastCheckTimes holds the time of the last tick
\* that sampled the queue, so this is: a tick samples a queue it contains
\* exactly when the queue has no sample yet in the slot of the tick
C35_Slot(n, t) == WindowOf(t, ResolvedInterval(n))

C35_NotYetInSlot(n) ==
  Sampled(n) => C35_Slot(n, service.lastCheckTimes[n]) < C35_Slot(n, tick'.at)

C35_Step ==
  Fetched =>
    \A n \in QueueNames :
      /\ Sampled(n) => service.lastCheckTimes[n] <= tick'.at
      /\ n \in tick'.sampled =>
            /\ n \in tick'.present
            /\ C35_NotYetInSlot(n)
            /\ n \in DOMAIN service'.lastCheckTimes
            /\ service'.lastCheckTimes[n] = tick'.at
      /\ (n \in tick'.present /\ C35_NotYetInSlot(n)) => n \in tick'.sampled
      /\ n \notin tick'.sampled =>
            /\ n \in DOMAIN service'.lastCheckTimes <=> Sampled(n)
            /\ Sampled(n) => service'.lastCheckTimes[n] = service.lastCheckTimes[n]

C35_OncePerSlot == [][C35_Step]_vars

\* a queue sampled at the very start of a slot of its interval was in the
\* next tick, which fell in the same slot and did not sample it again
C35_Witness ==
  /\ tick.outcome \in {"idle", "analyzed"}
  /\ tick.byTicker
  /\ \E n \in tick.present \ tick.sampled :
       /\ ResolvedInterval(n) = 2
       /\ n \in DOMAIN service.lastCheckTimes
       /\ service.lastCheckTimes[n] = service.startTime + 2
       /\ tick.at = service.startTime + 3

----------------------------------------------------------------------------
\* C36: in every reachable state and for every queue, its resolved
\* threshold_checks being fixed, current_health is Stuck if and only if
\* consecutive_stuck >= threshold_checks; at the evaluation that emits a
\* Healthy->Stuck Transition consecutive_stuck equals threshold_checks
\* exactly; and every Alert carries consecutive_stuck >= threshold_checks and
\* is emitted while current_health is Stuck
C36_Threshold(q) == getConfigForQueue(q).ThresholdChecks

C36_StuckIffCounted ==
  \A q \in DOMAIN states :
     Health(states[q]) = "stuck" <=> states[q].ConsecutiveStuck >= C36_Threshold(q)

C36_Step(q, verdict, transitions, alerts) ==
  /\ ToStuck(transitions) # <<>> => states'[q].ConsecutiveStuck = C36_Threshold(q)
  /\ \A i \in 1..Len(alerts) :
        /\ alerts[i].ConsecutiveStuck >= C36_Threshold(q)
        /\ alerts[i].ConsecutiveStuck = states'[q].ConsecutiveStuck
        /\ alerts[i].ThresholdChecks = C36_Threshold(q)
        /\ Health(states'[q]) = "stuck"

C36_HealthFollowsCounter ==
  [][C36_StuckIffCounted' /\ Evaluation(C36_Step)]_vars

\* the queue has stayed stuck for five minutes after the alert of its
\* crossing: a second alert carries a counter far above the threshold
C36_Witness ==
  \E q \in DOMAIN states :
     /\ Health(states[q]) = "stuck"
     /\ Len(About(result.StuckAlerts, q)) = 1
     /\ About(result.StuckAlerts, q)[1].ConsecutiveStuck
          >= C36_Threshold(q) + AlertThrottle
     /\ ToStuck(result.Transitions) = <<>>

----------------------------------------------------------------------------
\* C37: for a fresh queue with threshold_checks = T >= 2, no Healthy->Stuck
\* Transition and no Alert can be emitted before the (2T-1)-th sample of
\* the queue: the first stuck decision is possible only at sample T (the
\* history must reach T) and T consecutive stuck decisions are then
\* required; a flat backlog above min_message_count reaches Stuck exactly at
\* sample 2T-1.  (One sample per tick from time 1 on: sample n is the one
\* evaluated at time n.)
C37_Step(q, verdict, transitions, alerts) ==
  LET T == getConfigForQueue(q).ThresholdChecks
      n == now'
      flat == twin'.states[q]
  IN  T >= 2 =>
        /\ n < T => ~verdict.isStuck
        /\ n < 2 * T - 1 =>
              /\ ToStuck(transitions) = <<>>
              /\ alerts = <<>>
              /\ Health(states'[q]) = "healthy"
        /\ ToStuck(transitions) # <<>> => states'[q].ConsecutiveStuck = T
        /\ flat.ConsecutiveStuck = Max(0, n - T + 1)
        /\ Health(flat) = "stuck" <=> n >= 2 * T - 1
        /\ Health(flat) = "stuck" => flat.StuckSince = 2 * T - 1

C37_NotBeforeTwiceThreshold == [][Evaluation(C37_Step)]_vars

\* the flat backlog has just been marked stuck, at its fifth sample under
\* threshold_checks 3, when the queue fed other levels is marked stuck too
C37_Witness ==
  /\ Orders \in DOMAIN states
  /\ getConfigForQueue(Orders).ThresholdChecks = 3
  /\ now = 5
  /\ Health(twin.states[Orders]) = "stuck"
  /\ Len(ToStuck(result.Transitions)) = 1
  /\ \E i, j \in 1..Len(states[Orders].History) :
        states[Orders].History[i].MessagesReady # states[Orders].History[j].MessagesReady

----------------------------------------------------------------------------
(* C38: every Healthy->Stuck Transition is accompanied by an Alert for the  *)
(* same queue in the same evaluation, so the Logger records every stuck     *)
(* episode when it begins, also one that starts less than 5 minutes after   *)
(* the previous Alert of the queue.  Checked on the running service with a  *)
(* queue that is marked stuck from its second sample on (SpecNotify).       *)

\* the check that ends with this step marks queue q stuck
C38_EpisodeBegins(q) == ToStuck(About(result'.Transitions, q)) # <<>>

\* the Logger received the alert line of queue q in the check that ends
C38_Recorded(q) ==
  \E i \in 1..Len(tick'.logged) :
     /\ tick'.logged[i].msg = "STUCK QUEUE DETECTED"
     /\ tick'.logged[i].queue = q

C38_StepAsStated ==
  Routed =>
    \A q \in QueueNames :
       C38_EpisodeBegins(q) =>
         /\ Len(About(result'.StuckAlerts, q)) = 1
         /\ C38_Recorded(q)

C38_EveryEpisodeAlerted == [][C38_StepAsStated]_vars

\* C38, amended: a Healthy->Stuck Transition is accompanied by an Alert for
\* the same queue in the same evaluation, and the Logger records the
\* episode when it begins, unless the previous Alert of the queue is less
\* than 5 minutes old: then the Transition comes without an Alert and the
\* Logger records no alert for the episode at its start.
C38_Step ==
  Routed =>
    \A q \in QueueNames :
       C38_EpisodeBegins(q) =>
         IF Sub(now, Before(q).LastAlertTime) >= AlertThrottle
           THEN /\ Len(About(result'.StuckAlerts, q)) = 1
                /\ C38_Recorded(q)
           ELSE /\ About(result'.StuckAlerts, q) = <<>>
                /\ ~C38_Recorded(q)

C38_EpisodeAlertedUnlessThrottled == [][C38_Step]_vars

\* a second stuck episode has begun 20 seconds after the Alert of the
\* first: the check emitted the Transition and logged no alert
C38_Witness ==
  /\ tick.outcome = "analyzed"
  /\ Len(ToStuck(About(result.Transitions, Orders))) = 1
  /\ result.StuckAlerts = <<>>
  /\ \A i \in 1..Len(tick.logged) : tick.logged[i].msg # "STUCK QUEUE DETECTED"
  /\ states[Orders].LastAlertTime # ZeroTime
  /\ states[Orders].StuckSince - states[Orders].LastAlertTime = 2

----------------------------------------------------------------------------
(* C39: whatever min_consume_rate is, the decision of an evaluation, and    *)
(* with it consecutive_stuck, current_health and the time of every          *)
(* Transition and Alert, follows from the messages_ready history,           *)
(* threshold_checks and min_message_count alone: two analyzers fed the      *)
(* same messages_ready and different consume_rate, ack_rate and consumers   *)
(* (SpecBlind) agree on all of them; only the reasons may differ.           *)

\* the messages_ready of a history
C39_Counts(history) == [ i \in 1..Len(history) |-> history[i].MessagesReady ]

C39_Step(q, verdict, transitions, alerts) ==
  LET mine == states'[q]
      other == twin'.states[q]
      earlier == IF q \in DOMAIN twin.states THEN twin.states[q]
                                             ELSE NewQueueState(q)
  IN  /\ C39_Counts(mine.History) = C39_Counts(other.History)
      /\ \A i \in 1..Len(twin'.verdicts) :
            twin'.verdicts[i].QueueName = q =>
               twin'.verdicts[i].isStuck = verdict.isStuck
      /\ mine.ConsecutiveStuck = other.ConsecutiveStuck
      /\ Health(mine) = Health(other)
      /\ mine.LastKnownState = other.LastKnownState
      /\ mine.StuckSince = other.StuckSince
      /\ mine.LastAlertTime = other.LastAlertTime
      /\ Len(transitions) = 1 <=> Health(other) # Health(earlier)
      /\ Len(alerts) = 1 <=> other.LastAlertTime = now'

C39_CountsDecide == [][Evaluation(C39_Step)]_vars

\* with the rate check on, one analyzer has just marked the queue stuck on
\* a sample without consumers, the other on a sample with acknowledging
\* consumers: same decision, different reasons
C39_Witness ==
  /\ Orders \in DOMAIN states
  /\ getConfigForQueue(Orders).MinConsumeRate >= 0
  /\ Len(ToStuck(result.Transitions)) = 1
  /\ Len(result.StuckAlerts) = 1
  /\ Health(twin.states[Orders]) = "stuck"
  /\ twin.states[Orders].StuckSince = now
  /\ Last(verdicts).isStuck /\ Last(twin.verdicts).isStuck
  /\ Last(verdicts).reason # Last(twin.verdicts).reason
  /\ Last(states[Orders].History).Consumers = 0
  /\ Last(twin.states[Orders].History).AckRate > 0

----------------------------------------------------------------------------
(* C40: whatever the sequence of Start and Stop calls on one Service        *)
(* (SpecCalls), the stop channel is closed at most once: no call of Stop    *)
(* closes a channel that is closed already.  Stop on a Service that is not  *)
(* running changes nothing, and Start on a running Service returns          *)
(* "monitor is already running" and starts no second loop.                  *)

\* this step is a call of Stop that reaches close(s.stopChan)
C40_Closes == service.running /\ ~service'.running

\* this step is a call of Stop on a Service that is not running
C40_StopWhenIdle ==
  /\ ~service.running
  /\ returned' # returned
  /\ returned'.op = "Stop"

\* this step is a call of Start on a Service that is running
C40_StartWhenRunning ==
  /\ service.running
  /\ \/ loop.pc = "new" /\ loop' # loop
     \/ returned' # returned /\ returned'.op = "Start"

C40_Step ==
  /\ C40_Closes => service.stopChan = "open" /\ service'.stopChan = "closed"
  /\ C40_StopWhenIdle => UNCHANGED <<analyzerVars, serviceVars>>
  /\ C40_StartWhenRunning =>
        /\ \/ loop'.pc = "done"
           \/ returned'.err = "monitor is already running" /\ loop' = loop
        /\ UNCHANGED <<analyzerVars, service, ticker, checks, tick, main>>

C40_StartStopSafe == [][C40_Step]_vars

====
